---- MODULE Spec2Model ----
(***************************************************************************)
(* Provider abstraction and selection subsystem of the AI changelog        *)
(* generator: the adapters' configuration checks and completion calls,     *)
(* the ProviderManager registry, and the Vertex / Google retry paths.      *)
(***************************************************************************)
EXTENDS Integers, Sequences, FiniteSets, TLC

(* ------------------------------ bounds --------------------------------- *)
\* how many things the environment sets: configuration keys, a preferred
\* provider, a provider file that fails to load, a non-alphabetical listing
MaxInputs == 3
\* how many resolution calls (getProvider / determineActiveProvider) are logged
MaxCalls == 2
\* how many configuration keys are set when adapters are called directly
MaxKeys == 2
\* the largest line count a change has, in hundreds, and its largest file count
MaxLineHundreds == 16
MaxFiles == 32
\* how many fragments a vendor stream yields, and how many of the vendor
\* calls of one invocation may fail
MaxFragments == 2
MaxFailures == 1
\* how many messages a request holds
MaxMessages == 3

(* ------------------------- text as token lists -------------------------- *)
\* s.includes(pat): pat occurs in s as a contiguous run
Includes(s, pat) ==
  \E i \in 0..(Len(s) - Len(pat)) :
    \A j \in 1..Len(pat) : s[i + j] = pat[j]

(* ---------------------------- configuration ---------------------------- *)
ProviderNames ==
  {"anthropic", "azure", "google", "huggingface", "lmstudio", "ollama",
   "openai", "vertex"}

\* the keys the adapters read to decide availability and the default model;
\* a key is in the configuration when its value is truthy
\* (AZURE_USE_AD_AUTH: when its value is the string 'true';
\*  GOOGLE_APPLICATION_CREDENTIALS is read from process.env)
ConfigKeys ==
  {"OPENAI_API_KEY", "ANTHROPIC_API_KEY", "AZURE_OPENAI_ENDPOINT",
   "AZURE_OPENAI_KEY", "AZURE_USE_AD_AUTH", "OLLAMA_HOST",
   "VERTEX_PROJECT_ID", "VERTEX_KEY_FILE", "VERTEX_CREDENTIALS",
   "GOOGLE_APPLICATION_CREDENTIALS", "GOOGLE_API_KEY", "LMSTUDIO_API_BASE",
   "HUGGINGFACE_API_KEY", "VERTEX_MODEL"}

\* the configuration keys each adapter's isAvailable() reads
CredentialKeys(name) ==
  CASE name = "openai"      -> {"OPENAI_API_KEY"}
    [] name = "anthropic"   -> {"ANTHROPIC_API_KEY"}
    [] name = "azure"       -> {"AZURE_OPENAI_ENDPOINT", "AZURE_OPENAI_KEY",
                                "AZURE_USE_AD_AUTH"}
    [] name = "ollama"      -> {"OLLAMA_HOST"}
    [] name = "vertex"      -> {"VERTEX_PROJECT_ID", "VERTEX_KEY_FILE",
                                "VERTEX_CREDENTIALS",
                                "GOOGLE_APPLICATION_CREDENTIALS"}
    [] name = "google"      -> {"GOOGLE_API_KEY"}
    [] name = "lmstudio"    -> {"LMSTUDIO_API_BASE"}
    [] name = "huggingface" -> {"HUGGINGFACE_API_KEY"}

(* ------------------------ adapters: isAvailable ------------------------ *)
OpenAIIsAvailable(cfg) == "OPENAI_API_KEY" \in cfg

AnthropicIsAvailable(cfg) == "ANTHROPIC_API_KEY" \in cfg

AzureIsAvailable(cfg) ==
  /\ "AZURE_OPENAI_ENDPOINT" \in cfg
  /\ ("AZURE_OPENAI_KEY" \in cfg \/ "AZURE_USE_AD_AUTH" \in cfg)

OllamaIsAvailable(cfg) == "OLLAMA_HOST" \in cfg

VertexIsAvailable(cfg) ==
  /\ "VERTEX_PROJECT_ID" \in cfg
  /\ \/ "VERTEX_KEY_FILE" \in cfg
     \/ "VERTEX_CREDENTIALS" \in cfg
     \/ "GOOGLE_APPLICATION_CREDENTIALS" \in cfg

GoogleIsAvailable(cfg) == "GOOGLE_API_KEY" \in cfg

\* variant: the base URL defaults to localhost, as it does in initializeClient
LMStudioIsAvailableDefaultHost(cfg) == TRUE

LMStudioIsAvailable(cfg) == "LMSTUDIO_API_BASE" \in cfg

HuggingFaceIsAvailable(cfg) == "HUGGINGFACE_API_KEY" \in cfg

\* provider.isAvailable() of the adapter registered under name
IsAvailable(name, cfg) ==
  CASE name = "openai"      -> OpenAIIsAvailable(cfg)
    [] name = "anthropic"   -> AnthropicIsAvailable(cfg)
    [] name = "azure"       -> AzureIsAvailable(cfg)
    [] name = "ollama"      -> OllamaIsAvailable(cfg)
    [] name = "vertex"      -> VertexIsAvailable(cfg)
    [] name = "google"      -> GoogleIsAvailable(cfg)
    [] name = "lmstudio"    -> LMStudioIsAvailable(cfg)
    [] name = "huggingface" -> HuggingFaceIsAvailable(cfg)

\* the message of the error generateCompletion throws when !isAvailable()
NotConfiguredError(name) ==
  CASE name = "openai"      -> "OpenAI provider is not configured."
    [] name = "anthropic"   -> "Anthropic provider is not configured."
    [] name = "azure"       -> "Azure OpenAI provider is not configured."
    [] name = "ollama"      -> "Ollama provider is not configured."
    [] name = "vertex"      -> "Vertex AI provider is not configured."
    [] name = "google"      -> "Google provider is not configured."
    [] name = "lmstudio"    -> "LM Studio provider is not configured."
    [] name = "huggingface" -> "Hugging Face provider is not configured."

(* --------------------------- ProviderManager --------------------------- *)
\* a directory entry of lib/providers
File(base, ext) == [base |-> base, ext |-> ext]

\* two listings fs.readdirSync may return for the same directory
AlphabeticalOrder ==
  << File("anthropic", "js"), File("azure", "js"),
     File("base-provider", "js"), File("google", "js"),
     File("huggingface", "js"), File("lmstudio", "js"),
     File("ollama", "js"), File("openai", "js"), File("vertex", "js") >>

ReverseOrder ==
  [i \in 1..Len(AlphabeticalOrder) |->
     AlphabeticalOrder[Len(AlphabeticalOrder) + 1 - i]]

DirOrders == {AlphabeticalOrder, ReverseOrder}

\* AI_PROVIDER: unset (""), a provider name, or a name no adapter has
PreferredValues == ProviderNames \cup {"", "myprovider"}

\* providers = loadProviders(): the keys of the providers object in
\* insertion order; a file whose require or constructor throws is skipped
RECURSIVE LoadFrom(_, _, _)
LoadFrom(files, brk, acc) ==
  IF files = << >> THEN acc
  ELSE LET file == Head(files)
           loaded == /\ file.ext = "js"
                     /\ file.base # "base-provider"
                     /\ file.base \notin brk
       IN LoadFrom(Tail(files), brk,
                   IF loaded THEN Append(acc, file.base) ELSE acc)

loadProviders(files, brk) == LoadFrom(files, brk, << >>)

InSeq(x, s) == \E i \in 1..Len(s) : s[i] = x

\* the for...in loop of determineActiveProvider: first available provider in
\* the key order of the providers object, or "null"
RECURSIVE AutoDetect(_, _)
AutoDetect(provs, cfg) ==
  IF provs = << >> THEN "null"
  ELSE IF IsAvailable(Head(provs), cfg) THEN Head(provs)
       ELSE AutoDetect(Tail(provs), cfg)

\* variant: the preferred provider is not consulted
determineActiveProviderAutoOnly(provs, cfg, pref) == AutoDetect(provs, cfg)

determineActiveProvider(provs, cfg, pref) ==
  IF pref # "" /\ InSeq(pref, provs) /\ IsAvailable(pref, cfg)
  THEN pref
  ELSE AutoDetect(provs, cfg)

\* object identity: an adapter instance is the one registered under its name;
\* the object literal built by getProvider is a new object on every evaluation
AdapterObj(name) == [kind |-> "adapter", name |-> name, id |-> 0]
DummyObj(n) == [kind |-> "dummy", name |-> "none", id |-> n]
NullObj == [kind |-> "null", name |-> "null", id |-> 0]

ObjOf(name) == IF name = "null" THEN NullObj ELSE AdapterObj(name)

\* variant: no object literal, the cached adapter is returned as it is
getProviderNoDummy(avail, active, fresh) == ObjOf(active)

\* what getProvider() returns, given the cached flag and the cached adapter
getProvider(avail, active, fresh) ==
  IF ~avail THEN DummyObj(fresh) ELSE ObjOf(active)

NoProviderError == "No AI provider configured."

DummyMethods ==
  {"isAvailable", "getName", "generateCompletion", "getModelRecommendation",
   "testConnection", "getCapabilities"}

ProviderOps == DummyMethods \cup {"validateModelAvailability"}

\* the outcome of calling method op on the object literal of getProvider
DummyCall(op) ==
  CASE op = "isAvailable" ->
         [op |-> op, outcome |-> "returned", value |-> "false"]
    [] op = "getName" ->
         [op |-> op, outcome |-> "returned", value |-> "none"]
    [] op = "generateCompletion" ->
         [op |-> op, outcome |-> "threw", value |-> NoProviderError]
    [] op = "getModelRecommendation" ->
         [op |-> op, outcome |-> "returned", value |-> "rule-based"]
    [] op = "testConnection" ->
         [op |-> op, outcome |-> "returned", value |-> "success:false"]
    [] op = "getCapabilities" ->
         [op |-> op, outcome |-> "returned", value |-> "{}"]
    [] OTHER ->
         [op |-> op, outcome |-> "threw",
          value |-> "TypeError: not a function"]

NoCall == [op |-> "none", outcome |-> "none", value |-> "none"]

VARIABLES
  config,        \* configManager.config: the set of truthy keys
  preferred,     \* configManager.get('AI_PROVIDER')
  dirOrder,      \* what fs.readdirSync(providersPath) returns
  broken,        \* provider files whose require or constructor throws
  providers,     \* ProviderManager.providers (keys in insertion order)
  activeProvider, \* ProviderManager.activeProvider (a name or "null")
  isAvailable,   \* ProviderManager.isAvailable
  nextObj,       \* object literals handed out so far (their identity)
  resolved,      \* log of getProvider / determineActiveProvider results
  lastCall       \* the last method call made on getProvider()'s result

registryVars ==
  << config, preferred, dirOrder, broken, providers, activeProvider,
     isAvailable, nextObj, resolved, lastCall >>

VARIABLES
  clients,       \* adapters whose constructor built a vendor client
  vertexClient,  \* VertexAIProvider.client is non-null
  vertexInit,    \* the constructor's unawaited initializeClient(): its state
  inv,           \* the generateCompletion invocation a caller made
  pc,            \* where that invocation is suspended
  frame,         \* options of the generateCompletion call now running
  chain,         \* how each nested call's promise is linked to its caller's
  vendorCalls,   \* vendor calls made during the invocation
  calledModels,  \* the model of each vendor call, in order
  delays,        \* the setTimeout delays of the invocation, in order
  lastError,     \* the failure of the latest vendor call
  settled,       \* how the innermost generateCompletion call settled
  promise,       \* the promise the caller holds
  unhandled      \* a rejection was lost in a setTimeout callback

completionVars ==
  << clients, vertexClient, vertexInit, inv, pc, frame, chain, vendorCalls,
     calledModels, delays, lastError, settled, promise, unhandled >>

VARIABLES
  call,          \* the query a caller made of an adapter: operation, arguments
  ret,           \* what that query returned
  prevRet        \* what the same query returned before its argument grew

queryVars == << call, ret, prevRet >>

VARIABLES
  stream,        \* the vendor stream of the running call: none, open, ...
  arrived,       \* the fragments that stream has yielded, in order
  updates,       \* what the caller's progress callback was passed, in order
  content        \* the text the adapter has accumulated (its local variable)

streamVars == << stream, arrived, updates, content >>

VARIABLES
  modelCache     \* the model-instance caches: cache key -> instance

cacheVars == << modelCache >>

vars == << registryVars, completionVars, queryVars, streamVars, cacheVars >>

(* ----------------------- adapters: construction ------------------------ *)
\* the adapters that build their vendor client synchronously in the
\* constructor, when isAvailable() holds at that moment
ClientsBuilt(provs, cfg) ==
  {n \in ProviderNames \ {"vertex"} : InSeq(n, provs) /\ IsAvailable(n, cfg)}

\* initializeClient() of the Vertex adapter awaits the auth client only when
\* a key file or credentials are configured; otherwise it runs to the end
\* inside the constructor
VertexUsesAuth(cfg) == "VERTEX_KEY_FILE" \in cfg \/ "VERTEX_CREDENTIALS" \in cfg

VertexBuilt(provs, cfg) == InSeq("vertex", provs) /\ VertexIsAvailable(cfg)

(* ------------------------- requests and results ------------------------- *)
Omitted == << >>

\* options.model of the requests: omitted, or a model identifier
RequestModels ==
  { Omitted,
    << "gemini", "2.5", "pro", "preview" >>,
    << "gemini", "2.0", "flash" >>,
    << "gemini", "1.5", "pro" >>,
    << "gemini", "1.0", "ultra" >> }

\* options of a generateCompletion call; callback is the progress function
\* the caller passes, if any
Requests ==
  { r \in [model : RequestModels, stream : BOOLEAN,
           callback : {"none", "onUpdate", "onStreamData"}, tools : BOOLEAN] :
      r.callback # "none" => r.stream }

\* what the vendor call may do: succeed, or fail with one of these messages
QuotaMsg == << "quota", "exceeded" >>
NotFoundMsg == << "model", "not", "found" >>
QuotaNotFoundMsg == << "quota", "project", "not", "found" >>
InternalMsg == << "internal", "error" >>

VendorErrors == {QuotaMsg, NotFoundMsg, QuotaNotFoundMsg, InternalMsg}

Pending == [state |-> "pending", kind |-> "none", model |-> << >>,
            error |-> << >>]

Fulfilled(kind, model) ==
  [state |-> "fulfilled", kind |-> kind, model |-> model, error |-> << >>]

Rejected(msg) ==
  [state |-> "rejected", kind |-> "none", model |-> << >>, error |-> msg]

NoInvocation ==
  [adapter |-> "none",
   req |-> [model |-> Omitted, stream |-> FALSE, callback |-> "none",
            tools |-> FALSE]]

NoFrame == [model |-> Omitted, retryCount |-> 0, triedFallback |-> FALSE]

\* the model a call uses when options.model is omitted
DefaultModel(name, cfg) ==
  CASE name = "openai"      -> << "gpt-4o" >>
    [] name = "anthropic"   -> << "claude-4.0-sonnet" >>
    [] name = "azure"       -> << "undefined" >>
    [] name = "ollama"      -> << "llama3" >>
    [] name = "lmstudio"    -> << "local-model" >>
    [] name = "huggingface" -> << "mistralai/Mixtral-8x22B-Instruct-v0.1" >>
    [] name = "google"      -> << "gemini", "2.5", "flash" >>
    [] name = "vertex"      -> IF "VERTEX_MODEL" \in cfg
                               THEN << "gemini", "2.0", "pro" >>
                               ELSE << "gemini", "2.5", "flash" >>

ModelName(name, model, cfg) ==
  IF model = Omitted THEN DefaultModel(name, cfg) ELSE model

(* ------------------------ Vertex: retry and fallback -------------------- *)
\* the rate-limit test of the catch block
VertexIsRateLimit(msg) ==
  \/ Includes(msg, << "quota" >>)
  \/ Includes(msg, << "rate" >>)
  \/ Includes(msg, << "limit" >>)

\* the model-not-found test of the catch block
VertexIsNotFound(msg) ==
  \/ Includes(msg, << "not", "found" >>)
  \/ Includes(msg, << "invalid", "model" >>)

\* retryCount < 3
VertexMayRetry(retryCount) == retryCount < 3

\* Math.pow(2, retryCount) * 1000
VertexDelay(retryCount) == (2 ^ retryCount) * 1000

VertexGetSuggestedModels(modelName) ==
  IF Includes(modelName, << "gemini", "2.5", "pro" >>)
  THEN << << "gemini", "2.5", "flash" >>, << "gemini", "2.0", "pro" >>,
          << "gemini", "2.0", "flash" >> >>
  ELSE IF Includes(modelName, << "gemini", "2.5", "flash" >>)
  THEN << << "gemini", "2.0", "flash" >>, << "gemini", "2.0", "pro" >>,
          << "gemini", "1.5", "flash" >> >>
  ELSE IF Includes(modelName, << "gemini", "2.0", "pro" >>)
  THEN << << "gemini", "2.0", "flash" >>, << "gemini", "1.5", "pro" >>,
          << "gemini", "1.5", "flash" >> >>
  ELSE IF Includes(modelName, << "gemini", "2.0", "flash" >>)
  THEN << << "gemini", "1.5", "flash" >>, << "gemini", "1.5", "pro" >> >>
  ELSE IF Includes(modelName, << "gemini", "1.5", "pro" >>)
  THEN << << "gemini", "1.5", "flash" >>, << "gemini", "1.0", "pro" >> >>
  ELSE << << "gemini", "2.5", "flash" >>, << "gemini", "2.0", "flash" >>,
          << "gemini", "1.5", "flash" >> >>

\* whether the catch block falls back to another model
VertexMayFallback(fallbackModels, triedFallback) ==
  Len(fallbackModels) > 0 /\ ~triedFallback

\* variant: the retry forgets that the fallback was tried
VertexRetryOptionsForgetsFallback(f) ==
  [f EXCEPT !.retryCount = f.retryCount + 1, !.triedFallback = FALSE]

\* options of the call made from the setTimeout callback
VertexRetryOptions(f) == [f EXCEPT !.retryCount = f.retryCount + 1]

\* variant: the fallback call keeps the model that was not found
VertexFallbackOptionsSameModel(f, fallbackModels) ==
  [f EXCEPT !.triedFallback = TRUE]

\* options of the call made for the fallback model
VertexFallbackOptions(f, fallbackModels) ==
  [f EXCEPT !.model = fallbackModels[1], !.triedFallback = TRUE]

\* How a nested call's settlement reaches the caller. A "return" link is a
\* promise returned from the async function (adopted: both outcomes pass); a
\* "timer" link is new Promise((resolve) => setTimeout(async () => {...
\* resolve(result) })): only fulfilment passes, a rejection of the inner
\* call rejects the callback's own promise, which nobody holds.
Delivered(links, outcome) ==
  IF outcome.state = "rejected" /\ InSeq("timer", links)
  THEN Pending
  ELSE outcome

LostInCallback(links, outcome) ==
  outcome.state = "rejected" /\ InSeq("timer", links)

(* --------------------------- Google: catch blocks ----------------------- *)
\* the rate-limit test of the standard completion's catch block
GoogleIsRateLimit(msg) ==
  \/ Includes(msg, << "rate", "limit" >>)
  \/ Includes(msg, << "quota" >>)

\* neither GoogleProvider nor BaseProvider defines getRetryDelay
GetRetryDelayTypeError == << "TypeError: this.getRetryDelay is not a function" >>

\* which branch of generateCompletion a request takes
GoogleMode(req) ==
  IF req.stream /\ req.callback = "onStreamData" THEN "stream"
  ELSE IF req.tools THEN "tools"
  ELSE "standard"

\* the error the caller gets when the vendor call fails with msg
GoogleFailure(req, msg) ==
  CASE GoogleMode(req) = "stream" -> msg
    [] GoogleMode(req) = "tools" -> << "Tool calling error:" >> \o msg
    [] OTHER -> IF GoogleIsRateLimit(msg) THEN GetRetryDelayTypeError ELSE msg

(* ---------------------- the other adapters' failures -------------------- *)
\* LM Studio wraps the failure of a non-streamed call; the other adapters
\* have no catch block
PlainFailure(name, req, msg) ==
  IF name = "lmstudio" /\ ~req.stream
  THEN << "LM Studio API error:" >> \o msg
         \o << ". Make sure LM Studio is running and the API is enabled." >>
  ELSE msg

\* the value a successful call resolves to
PlainSuccess(name, req, cfg) ==
  IF name # "google" /\ req.stream
  THEN Fulfilled("stream", ModelName(name, req.model, cfg))
  ELSE Fulfilled("completion", ModelName(name, req.model, cfg))

NullClientTypeError == << "TypeError: Cannot read properties of null" >>
VertexInitFailed == << "Failed to initialize Vertex AI client." >>

(* ------------------------------- queries -------------------------------- *)
NoQuery == [op |-> "none"]
NoAnswer == [kind |-> "none"]

(* ------------------------- model-instance caches ------------------------ *)
EmptyCache == [k \in {} |-> 0]

\* cacheKey of getModelInstance: `${modelName}-${JSON.stringify(options)}`,
\* options being the whole options object of the generateCompletion call
\* (its function-valued entries are left out by JSON.stringify; retryCount
\* and triedFallback are entries once a retry or a fallback has set them)
VertexCacheKey(f, req, cfg) ==
  [adapter |-> "vertex", model |-> ModelName("vertex", f.model, cfg),
   options |-> [model |-> f.model, stream |-> req.stream, tools |-> req.tools,
                retryCount |-> f.retryCount,
                triedFallback |-> f.triedFallback]]

\* modelCacheKey of GoogleProvider.generateCompletion: the model name and
\* the model options built from the request's generation options
GoogleCacheKey(f, cfg) ==
  [adapter |-> "google", model |-> ModelName("google", f.model, cfg),
   options |-> [model |-> Omitted, stream |-> FALSE, tools |-> FALSE,
                retryCount |-> 0, triedFallback |-> FALSE]]

\* has / get / set of the cache: a missing key gets a new instance
Cached(cache, key) ==
  IF key \in DOMAIN cache THEN cache
  ELSE [k \in DOMAIN cache \cup {key} |->
          IF k = key THEN Cardinality(DOMAIN cache) + 1 ELSE cache[k]]

\* the cache after adapter name got the model instance of a call
CachedFor(name, cache, f, req, cfg) ==
  IF name = "vertex" THEN Cached(cache, VertexCacheKey(f, req, cfg))
  ELSE IF name = "google" THEN Cached(cache, GoogleCacheKey(f, cfg))
  ELSE cache

\* the cache after initializeClient() got the default model's instance:
\* getModelInstance(this.defaultModel) with no options
CachedDefault(cache, cfg) ==
  Cached(cache, VertexCacheKey(NoFrame, NoInvocation.req, cfg))

(* ------------------------------- states --------------------------------- *)
\* the state after new ProviderManager() under the given environment;
\* parses: JSON.parse of VERTEX_CREDENTIALS, if that is read, returns (when it
\* throws, initializeClient() has run to the end of its catch block before
\* the constructor returns)
ConstructedWith(cfg, pref, ord, brk, parses) ==
  /\ config = cfg
  /\ preferred = pref
  /\ dirOrder = ord
  /\ broken = brk
  /\ providers = loadProviders(ord, brk)
  /\ activeProvider = determineActiveProvider(loadProviders(ord, brk), cfg, pref)
  /\ isAvailable =
       (determineActiveProvider(loadProviders(ord, brk), cfg, pref) # "null")
  /\ nextObj = 0
  /\ resolved = << >>
  /\ lastCall = NoCall
  /\ clients = ClientsBuilt(loadProviders(ord, brk), cfg)
  /\ vertexClient =
       (VertexBuilt(loadProviders(ord, brk), cfg) /\ ~VertexUsesAuth(cfg))
  /\ vertexInit =
       IF /\ VertexBuilt(loadProviders(ord, brk), cfg)
          /\ VertexUsesAuth(cfg)
          /\ ("VERTEX_CREDENTIALS" \in cfg => parses)
       THEN "running" ELSE "idle"
  /\ inv = NoInvocation
  /\ pc = "idle"
  /\ frame = NoFrame
  /\ chain = << >>
  /\ vendorCalls = 0
  /\ calledModels = << >>
  /\ delays = << >>
  /\ lastError = << >>
  /\ settled = Pending
  /\ promise = Pending
  /\ unhandled = FALSE
  /\ call = NoQuery
  /\ ret = NoAnswer
  /\ prevRet = NoAnswer
  /\ stream = "none"
  /\ arrived = << >>
  /\ updates = << >>
  /\ content = << >>
  /\ modelCache =
       IF VertexBuilt(loadProviders(ord, brk), cfg) /\ ~VertexUsesAuth(cfg)
       THEN CachedDefault(EmptyCache, cfg)
       ELSE EmptyCache

\* ... when every value of the configuration is well formed
Constructed(cfg, pref, ord, brk) == ConstructedWith(cfg, pref, ord, brk, TRUE)

InputCost(cfg, pref, ord, brk) ==
  Cardinality(cfg) + Cardinality(brk)
    + (IF pref = "" THEN 0 ELSE 1)
    + (IF ord = AlphabeticalOrder THEN 0 ELSE 1)

InitRegistry ==
  \E cfg \in {c \in SUBSET ConfigKeys : Cardinality(c) <= MaxInputs} :
    \E pref \in PreferredValues, ord \in DirOrders :
      \E brk \in {b \in SUBSET ProviderNames : Cardinality(b) <= 1} :
        \E parses \in BOOLEAN :
          /\ InputCost(cfg, pref, ord, brk) <= MaxInputs
          /\ ~parses => "VERTEX_CREDENTIALS" \in cfg
          /\ ConstructedWith(cfg, pref, ord, brk, parses)

InitCompletion ==
  \E cfg \in {c \in SUBSET ConfigKeys : Cardinality(c) <= MaxKeys} :
    Constructed(cfg, "", AlphabeticalOrder, {})

(* --------------------------- registry actions --------------------------- *)
\* manager.getProvider()
GetProvider ==
  /\ Len(resolved) < MaxCalls
  /\ resolved' = Append(resolved,
       [op |-> "getProvider",
        obj |-> getProvider(isAvailable, activeProvider, nextObj + 1)])
  /\ nextObj' = IF ~isAvailable THEN nextObj + 1 ELSE nextObj
  /\ UNCHANGED << config, preferred, dirOrder, broken, providers,
                  activeProvider, isAvailable, lastCall, completionVars >>
  /\ UNCHANGED << queryVars, streamVars >>
  /\ UNCHANGED cacheVars

\* manager.determineActiveProvider() called again after construction
DetermineActiveProvider ==
  /\ Len(resolved) < MaxCalls
  /\ resolved' = Append(resolved,
       [op |-> "determineActiveProvider",
        obj |-> ObjOf(determineActiveProvider(providers, config, preferred))])
  /\ UNCHANGED << config, preferred, dirOrder, broken, providers,
                  activeProvider, isAvailable, nextObj, lastCall,
                  completionVars >>
  /\ UNCHANGED << queryVars, streamVars >>
  /\ UNCHANGED cacheVars

\* manager.getProvider().op(...) while getProvider() does not return an
\* adapter (the adapters' own operations are the completion actions)
CallOnDummy(op) ==
  /\ getProvider(isAvailable, activeProvider, nextObj + 1).kind # "adapter"
  /\ lastCall' =
       IF getProvider(isAvailable, activeProvider, nextObj + 1).kind = "dummy"
       THEN DummyCall(op)
       ELSE [op |-> op, outcome |-> "threw",
             value |-> "TypeError: Cannot read properties of null"]
  /\ UNCHANGED << config, preferred, dirOrder, broken, providers,
                  activeProvider, isAvailable, nextObj, resolved,
                  completionVars >>
  /\ UNCHANGED << queryVars, streamVars >>
  /\ UNCHANGED cacheVars

NextRegistry ==
  \/ GetProvider
  \/ DetermineActiveProvider
  \/ \E op \in ProviderOps : CallOnDummy(op)

SpecRegistry == InitRegistry /\ [][NextRegistry]_vars

(* -------------------------- completion actions -------------------------- *)
\* the promise of the running call settles: the caller's promise follows it
\* through the links of the chain
Settle(outcome) ==
  /\ pc' = "done"
  /\ settled' = outcome
  /\ promise' = Delivered(chain, outcome)
  /\ unhandled' = LostInCallback(chain, outcome)

\* VertexAIProvider.generateCompletion(messages, f) up to its first await,
\* entered through the links in links
VertexEnter(f, links, req) ==
  /\ frame' = f
  /\ chain' = links
  /\ IF ~VertexIsAvailable(config)
     THEN /\ pc' = "done"
          /\ settled' = Rejected(<< NotConfiguredError("vertex") >>)
          /\ promise' =
               Delivered(links, Rejected(<< NotConfiguredError("vertex") >>))
          /\ unhandled' =
               LostInCallback(links, Rejected(<< NotConfiguredError("vertex") >>))
          /\ UNCHANGED << vendorCalls, calledModels, modelCache >>
     ELSE IF ~vertexClient
     THEN /\ pc' = "init"
          /\ UNCHANGED << settled, promise, unhandled, vendorCalls,
                          calledModels, modelCache >>
     ELSE /\ pc' = "vendor"
          /\ vendorCalls' = vendorCalls + 1
          /\ calledModels' =
               Append(calledModels, ModelName("vertex", f.model, config))
          /\ modelCache' = CachedFor("vertex", modelCache, f, req, config)
          /\ UNCHANGED << settled, promise, unhandled >>

\* a caller invokes adapter.generateCompletion(messages, req)
GenerateCompletion(name, req) ==
  /\ pc = "idle"
  /\ InSeq(name, providers)
  /\ inv' = [adapter |-> name, req |-> req]
  /\ IF name = "vertex"
     THEN VertexEnter([model |-> req.model, retryCount |-> 0,
                       triedFallback |-> FALSE], << >>, req)
     ELSE /\ frame' = [model |-> req.model, retryCount |-> 0,
                       triedFallback |-> FALSE]
          /\ chain' = << >>
          /\ IF ~IsAvailable(name, config)
             THEN /\ Settle(Rejected(<< NotConfiguredError(name) >>))
                  /\ UNCHANGED << vendorCalls, calledModels, modelCache >>
             ELSE IF name \notin clients
             THEN /\ Settle(Rejected(NullClientTypeError))
                  /\ UNCHANGED << vendorCalls, calledModels, modelCache >>
             ELSE /\ pc' = "vendor"
                  /\ vendorCalls' = vendorCalls + 1
                  /\ calledModels' =
                       Append(calledModels, ModelName(name, req.model, config))
                  /\ modelCache' =
                       CachedFor(name, modelCache,
                                 [model |-> req.model, retryCount |-> 0,
                                  triedFallback |-> FALSE], req, config)
                  /\ UNCHANGED << settled, promise, unhandled >>
  /\ UNCHANGED << queryVars, streamVars >>
  /\ UNCHANGED << registryVars, clients, vertexClient, vertexInit, delays,
                  lastError >>

\* the vendor call of a plain adapter or of the Google adapter returns
VendorReturn(ok, msg) ==
  /\ pc = "vendor"
  /\ inv.adapter # "vertex"
  /\ IF ok
     THEN /\ Settle(PlainSuccess(inv.adapter, inv.req, config))
          /\ UNCHANGED lastError
     ELSE /\ lastError' = msg
          /\ Settle(Rejected(
               IF inv.adapter = "google"
               THEN GoogleFailure(inv.req, msg)
               ELSE PlainFailure(inv.adapter, inv.req, msg)))
  /\ UNCHANGED << queryVars, streamVars >>
  /\ UNCHANGED << registryVars, clients, vertexClient, vertexInit, inv, frame,
                  chain, vendorCalls, calledModels, delays >>
  /\ UNCHANGED cacheVars

\* the vendor call of the Vertex adapter succeeds
VertexVendorSucceeds ==
  /\ pc = "vendor"
  /\ inv.adapter = "vertex"
  /\ Settle(Fulfilled("completion", ModelName("vertex", frame.model, config)))
  /\ UNCHANGED << queryVars, streamVars >>
  /\ UNCHANGED << registryVars, clients, vertexClient, vertexInit, inv, frame,
                  chain, vendorCalls, calledModels, delays, lastError >>
  /\ UNCHANGED cacheVars

\* the vendor call of the Vertex adapter fails with msg: the catch block
VertexVendorFails(msg) ==
  /\ pc = "vendor"
  /\ inv.adapter = "vertex"
  /\ lastError' = msg
  /\ LET modelName == ModelName("vertex", frame.model, config)
         fallbackModels == VertexGetSuggestedModels(modelName)
     IN IF VertexIsRateLimit(msg) /\ VertexMayRetry(frame.retryCount)
        THEN /\ pc' = "timer"
             /\ delays' = Append(delays, VertexDelay(frame.retryCount))
             /\ UNCHANGED << frame, chain, vendorCalls, calledModels, settled,
                             promise, unhandled, modelCache >>
        ELSE IF /\ VertexIsNotFound(msg)
                /\ VertexMayFallback(fallbackModels, frame.triedFallback)
        THEN /\ VertexEnter(VertexFallbackOptions(frame, fallbackModels),
                            Append(chain, "return"), inv.req)
             /\ UNCHANGED delays
        ELSE /\ Settle(Rejected(msg))
             /\ UNCHANGED << frame, chain, vendorCalls, calledModels, delays,
                             modelCache >>
  /\ UNCHANGED << queryVars, streamVars >>
  /\ UNCHANGED << registryVars, clients, vertexClient, vertexInit, inv >>

\* the setTimeout callback of the rate-limit retry runs
VertexTimerFires ==
  /\ pc = "timer"
  /\ VertexEnter(VertexRetryOptions(frame), Append(chain, "timer"), inv.req)
  /\ UNCHANGED << queryVars, streamVars >>
  /\ UNCHANGED << registryVars, clients, vertexClient, vertexInit, inv, delays,
                  lastError >>

\* await this.initializeClient() inside generateCompletion returns
VertexCallInitReturns(ok) ==
  /\ pc = "init"
  /\ (~ok => VertexUsesAuth(config))
  /\ vertexClient' = ok
  /\ IF ok
     THEN /\ pc' = "vendor"
          /\ vendorCalls' = vendorCalls + 1
          /\ calledModels' =
               Append(calledModels, ModelName("vertex", frame.model, config))
          /\ modelCache' =
               CachedFor("vertex", CachedDefault(modelCache, config), frame,
                         inv.req, config)
          /\ UNCHANGED << settled, promise, unhandled >>
     ELSE /\ Settle(Rejected(VertexInitFailed))
          /\ UNCHANGED << vendorCalls, calledModels, modelCache >>
  /\ UNCHANGED << queryVars, streamVars >>
  /\ UNCHANGED << registryVars, clients, vertexInit, inv, frame, chain, delays,
                  lastError >>

\* the initializeClient() the constructor started comes to its end
VertexConstructorInitReturns(ok) ==
  /\ vertexInit = "running"
  /\ vertexInit' = "idle"
  /\ vertexClient' = ok
  /\ modelCache' = IF ok THEN CachedDefault(modelCache, config)
                   ELSE modelCache
  /\ UNCHANGED << queryVars, streamVars >>
  /\ UNCHANGED << registryVars, clients, inv, pc, frame, chain, vendorCalls,
                  calledModels, delays, lastError, settled, promise,
                  unhandled >>

NextCompletion ==
  \/ \E name \in ProviderNames, req \in Requests : GenerateCompletion(name, req)
  \/ \E ok \in BOOLEAN, msg \in VendorErrors : VendorReturn(ok, msg)
  \/ VertexVendorSucceeds
  \/ \E msg \in VendorErrors : VertexVendorFails(msg)
  \/ VertexTimerFires
  \/ \E ok \in BOOLEAN : VertexCallInitReturns(ok)
  \/ \E ok \in BOOLEAN : VertexConstructorInitReturns(ok)

SpecCompletion == InitCompletion /\ [][NextCompletion]_vars

(* ---------------------- adapters: getModelRecommendation ---------------- *)
\* commitDetails: the size of the change and its two flags
\* (the line counts next to each multiple of a hundred: every threshold of
\* the tables is one)
LineValues ==
  {100 * h + r : h \in 0..MaxLineHundreds, r \in {0, 1, 99}}

FileValues == 0..MaxFiles

CommitDetails ==
  [lines : LineValues, files : FileValues, breaking : BOOLEAN,
   complex : BOOLEAN]

Recommend(model, reason) == [kind |-> "recommendation", model |-> model,
                             reason |-> reason]

\* variant: only the two flags lead to the top row
OpenAIGetModelRecommendationFlagsOnly(d) ==
  IF d.breaking \/ d.complex
  THEN Recommend("gpt-4o",
                 "Complex or breaking change requiring advanced reasoning")
  ELSE IF d.lines > 1000 \/ d.files > 10
  THEN Recommend("gpt-4.1-standard",
                 "Large change requiring standard capabilities")
  ELSE IF d.lines < 200
  THEN Recommend("gpt-4.1-nano", "Small change, optimized for efficiency")
  ELSE Recommend("gpt-4.1-mini", "Medium-sized change")

OpenAIGetModelRecommendation(d) ==
  IF d.breaking \/ d.complex \/ d.files > 20
  THEN Recommend("gpt-4o",
                 "Complex or breaking change requiring advanced reasoning")
  ELSE IF d.lines > 1000 \/ d.files > 10
  THEN Recommend("gpt-4.1-standard",
                 "Large change requiring standard capabilities")
  ELSE IF d.lines < 200
  THEN Recommend("gpt-4.1-nano", "Small change, optimized for efficiency")
  ELSE Recommend("gpt-4.1-mini", "Medium-sized change")

\* variant: the breaking / complex test comes after the large-size test
AnthropicGetModelRecommendationSizeFirst(d) ==
  IF d.lines > 1000 \/ d.files > 30
  THEN Recommend("claude-4.0-sonnet", "Large commit size")
  ELSE IF d.breaking \/ d.complex
  THEN Recommend("claude-4.0-opus", "Complex or breaking change detected")
  ELSE IF d.lines > 500 \/ d.files > 15
  THEN Recommend("claude-3.5-sonnet", "Medium-large commit size")
  ELSE IF d.lines > 200 \/ d.files > 8
  THEN Recommend("claude-3.5-haiku", "Medium commit size")
  ELSE Recommend("claude-3-haiku", "Standard commit size")

AnthropicGetModelRecommendation(d) ==
  IF d.breaking \/ d.complex
  THEN Recommend("claude-4.0-opus", "Complex or breaking change detected")
  ELSE IF d.lines > 1000 \/ d.files > 30
  THEN Recommend("claude-4.0-sonnet", "Large commit size")
  ELSE IF d.lines > 500 \/ d.files > 15
  THEN Recommend("claude-3.5-sonnet", "Medium-large commit size")
  ELSE IF d.lines > 200 \/ d.files > 8
  THEN Recommend("claude-3.5-haiku", "Medium commit size")
  ELSE Recommend("claude-3-haiku", "Standard commit size")

\* this.config.OLLAMA_MODEL || 'llama3', whatever commitDetails holds
OllamaGetModelRecommendation(d, cfg) ==
  Recommend(IF "OLLAMA_MODEL" \in cfg THEN "config.OLLAMA_MODEL" ELSE "llama3",
            "Using configured or default Ollama model")

\* variant: the medium-large rule asks for fewer than 15 files
AzureGetModelRecommendationFewFiles(d) ==
  IF d.breaking \/ d.complex
  THEN Recommend("o4", "Breaking or complex change detected, using o4 model")
  ELSE IF d.lines > 1000 \/ d.files > 25
  THEN Recommend("o3", "Large and complex commit, using o3 model")
  ELSE IF d.lines > 500 \/ d.files < 15
  THEN Recommend("gpt-4o", "Medium-large commit size")
  ELSE IF d.lines > 200 \/ d.files > 8
  THEN Recommend("gpt-4.1-standard", "Medium commit size")
  ELSE Recommend("gpt-4.1-mini", "Standard commit size")

AzureGetModelRecommendation(d) ==
  IF d.breaking \/ d.complex
  THEN Recommend("o4", "Breaking or complex change detected, using o4 model")
  ELSE IF d.lines > 1000 \/ d.files > 25
  THEN Recommend("o3", "Large and complex commit, using o3 model")
  ELSE IF d.lines > 500 \/ d.files > 15
  THEN Recommend("gpt-4o", "Medium-large commit size")
  ELSE IF d.lines > 200 \/ d.files > 8
  THEN Recommend("gpt-4.1-standard", "Medium commit size")
  ELSE Recommend("gpt-4.1-mini", "Standard commit size")

VertexGetModelRecommendation(d) ==
  IF d.breaking \/ d.complex
  THEN Recommend("gemini-2.5-pro", "Complex or breaking change detected")
  ELSE IF d.lines > 1500 \/ d.files > 30
  THEN Recommend("gemini-2.5-pro", "Large commit size")
  ELSE IF d.lines > 800 \/ d.files > 20
  THEN Recommend("gemini-2.0-pro", "Medium-large commit size")
  ELSE IF d.lines > 300 \/ d.files > 10
  THEN Recommend("gemini-2.0-flash", "Medium commit size")
  ELSE Recommend("gemini-2.5-flash", "Standard commit size")

GoogleGetModelRecommendation(d) ==
  IF d.breaking \/ d.complex
  THEN Recommend("gemini-2.5-pro", "Complex or breaking change detected")
  ELSE IF d.lines > 1500 \/ d.files > 30
  THEN Recommend("gemini-2.5-pro", "Large commit size")
  ELSE IF d.lines > 800 \/ d.files > 20
  THEN Recommend("gemini-2.0-pro", "Medium-large commit size")
  ELSE IF d.lines > 300 \/ d.files > 10
  THEN Recommend("gemini-2.0-flash", "Medium commit size")
  ELSE Recommend("gemini-2.5-flash", "Standard commit size")

\* this.config.LMSTUDIO_MODEL || 'local-model', whatever commitDetails holds
LMStudioGetModelRecommendation(d, cfg) ==
  Recommend(IF "LMSTUDIO_MODEL" \in cfg THEN "config.LMSTUDIO_MODEL"
            ELSE "local-model",
            "Using configured LM Studio model")

HuggingFaceGetModelRecommendation(d) ==
  IF d.breaking \/ d.complex
  THEN Recommend("meta-llama/Meta-Llama-3.1-70B-Instruct",
                 "Complex or breaking change detected")
  ELSE IF d.lines > 1000 \/ d.files > 25
  THEN Recommend("mistralai/Mixtral-8x22B-Instruct-v0.1", "Large commit size")
  ELSE IF d.lines > 500 \/ d.files > 15
  THEN Recommend("meta-llama/Meta-Llama-3.1-8B-Instruct",
                 "Medium-large commit size")
  ELSE IF d.lines > 200 \/ d.files > 8
  THEN Recommend("mistralai/Mistral-7B-Instruct-v0.3", "Medium commit size")
  ELSE Recommend("HuggingFaceH4/zephyr-7b-beta", "Standard commit size")

getModelRecommendation(name, d, cfg) ==
  CASE name = "openai"      -> OpenAIGetModelRecommendation(d)
    [] name = "anthropic"   -> AnthropicGetModelRecommendation(d)
    [] name = "azure"       -> AzureGetModelRecommendation(d)
    [] name = "ollama"      -> OllamaGetModelRecommendation(d, cfg)
    [] name = "vertex"      -> VertexGetModelRecommendation(d)
    [] name = "google"      -> GoogleGetModelRecommendation(d)
    [] name = "lmstudio"    -> LMStudioGetModelRecommendation(d, cfg)
    [] name = "huggingface" -> HuggingFaceGetModelRecommendation(d)

\* the tier a recommendation names in its reason: the rows of the adapters'
\* tables from the bottom (0) to the breaking / complex row (4)
TierOfReason(reason) ==
  CASE reason \in {"Standard commit size",
                   "Small change, optimized for efficiency",
                   "Using configured or default Ollama model",
                   "Using configured LM Studio model"} -> 0
    [] reason \in {"Medium commit size", "Medium-sized change"} -> 1
    [] reason = "Medium-large commit size" -> 2
    [] reason \in {"Large commit size",
                   "Large change requiring standard capabilities",
                   "Large and complex commit, using o3 model"} -> 3
    [] reason \in {"Complex or breaking change detected",
                   "Complex or breaking change requiring advanced reasoning",
                   "Breaking or complex change detected, using o4 model"} -> 4

\* the configuration keys getModelRecommendation reads
ModelKeys == {"OLLAMA_MODEL", "LMSTUDIO_MODEL"}

(* ------------------------ recommendation actions ------------------------ *)
InitRecommend ==
  \E cfg \in SUBSET ModelKeys : Constructed(cfg, "", AlphabeticalOrder, {})

\* a caller asks adapter name for a recommendation for the change d
GetModelRecommendation(name, d) ==
  /\ call.op = "none"
  /\ InSeq(name, providers)
  /\ call' = [op |-> "getModelRecommendation", adapter |-> name, arg |-> d]
  /\ ret' = getModelRecommendation(name, d, config)
  /\ prevRet' = NoAnswer
  /\ UNCHANGED << registryVars, completionVars, streamVars >>
  /\ UNCHANGED cacheVars

\* the next line count above l
MoreLines(l) == IF l % 100 = 1 THEN l + 98 ELSE l + 1

\* the caller asks the same adapter again about the change d, which has the
\* same flags and is no smaller in lines or in files
RecommendLarger(d) ==
  /\ call.op = "getModelRecommendation"
  /\ call' = [call EXCEPT !.arg = d]
  /\ ret' = getModelRecommendation(call.adapter, d, config)
  /\ prevRet' = ret
  /\ UNCHANGED << registryVars, completionVars, streamVars >>
  /\ UNCHANGED cacheVars

\* ... about the same change with the next larger line count
RecommendMoreLines ==
  /\ call.op = "getModelRecommendation"
  /\ MoreLines(call.arg.lines) \in LineValues
  /\ RecommendLarger([call.arg EXCEPT !.lines = MoreLines(call.arg.lines)])

\* ... about the same change with one more file
RecommendMoreFiles ==
  /\ call.op = "getModelRecommendation"
  /\ call.arg.files < MaxFiles
  /\ RecommendLarger([call.arg EXCEPT !.files = call.arg.files + 1])

NextRecommend ==
  \/ /\ call.op = "none"
     /\ \E name \in ProviderNames, d \in CommitDetails :
          GetModelRecommendation(name, d)
  \/ RecommendMoreLines
  \/ RecommendMoreFiles

SpecRecommend == InitRecommend /\ [][NextRecommend]_vars

(* --------------------------- streamed completions ----------------------- *)
\* a configuration under which every adapter is available and has its client
EveryAdapterConfigured ==
  {"OPENAI_API_KEY", "ANTHROPIC_API_KEY", "AZURE_OPENAI_ENDPOINT",
   "AZURE_OPENAI_KEY", "OLLAMA_HOST", "VERTEX_PROJECT_ID",
   "GOOGLE_APPLICATION_CREDENTIALS", "GOOGLE_API_KEY", "LMSTUDIO_API_BASE",
   "HUGGINGFACE_API_KEY"}

\* chunk.text() of the chunks a vendor stream yields
Fragments == {<< "a" >>, << "b" >>}

\* response.text() of a vendor call that is not streamed
ResponseTexts == {<< >>, << "a" >>, << "a", "b" >>}

\* the adapter iterates over the vendor's stream itself: Vertex when the
\* caller passes onUpdate, Google when the caller passes onStreamData
ConsumesStream(name, req) ==
  \/ name = "vertex" /\ req.stream /\ req.callback = "onUpdate"
  \/ name = "google" /\ GoogleMode(req) = "stream"

\* the adapter returns { stream, model } as soon as the vendor call returns
HandsOverStream(name, req) == name \notin {"vertex", "google"} /\ req.stream

\* what the progress callback is passed for a fragment
FragmentUpdate(frag) == [content |-> frag, done |-> FALSE, error |-> << >>]

\* what the progress callback is passed after the last fragment
FinalUpdate(name, text) ==
  IF name = "google"
  THEN [content |-> text, done |-> TRUE, error |-> << >>]
  ELSE [content |-> << >>, done |-> TRUE, error |-> << >>]

\* what Google's progress callback is passed when the stream fails
ErrorUpdate(msg) == [content |-> << >>, done |-> TRUE, error |-> msg]

(* ---------------------------- stream actions ---------------------------- *)
InitStream ==
  \E cfg \in {EveryAdapterConfigured,
              EveryAdapterConfigured \cup {"VERTEX_MODEL"}} :
    Constructed(cfg, "", AlphabeticalOrder, {})

\* a caller invokes adapter.generateCompletion(messages, req) with
\* req.stream set; the adapter goes up to its vendor call
StreamCompletion(name, req) ==
  /\ pc = "idle"
  /\ req.stream
  /\ InSeq(name, providers)
  /\ IsAvailable(name, config)
  /\ IF name = "vertex" THEN vertexClient ELSE name \in clients
  /\ inv' = [adapter |-> name, req |-> req]
  /\ frame' = [model |-> req.model, retryCount |-> 0, triedFallback |-> FALSE]
  /\ chain' = << >>
  /\ pc' = "vendor"
  /\ vendorCalls' = vendorCalls + 1
  /\ calledModels' = Append(calledModels, ModelName(name, req.model, config))
  /\ modelCache' =
       CachedFor(name, modelCache,
                 [model |-> req.model, retryCount |-> 0,
                  triedFallback |-> FALSE], req, config)
  /\ UNCHANGED << registryVars, queryVars, streamVars, clients, vertexClient,
                  vertexInit, delays, lastError, settled, promise, unhandled >>

\* the vendor call returns a stream
VendorOpensStream ==
  /\ pc = "vendor"
  /\ inv.req.stream
  /\ \/ /\ ConsumesStream(inv.adapter, inv.req)
        /\ pc' = "streaming"
        /\ UNCHANGED << settled, promise, unhandled >>
     \/ /\ HandsOverStream(inv.adapter, inv.req)
        /\ Settle(Fulfilled("stream",
                            ModelName(inv.adapter, frame.model, config)))
  /\ stream' = "open"
  /\ arrived' = << >>
  /\ content' = << >>
  /\ UNCHANGED << registryVars, queryVars, updates, clients, vertexClient,
                  vertexInit, inv, frame, chain, vendorCalls, calledModels,
                  delays, lastError >>
  /\ UNCHANGED cacheVars

\* the vendor call of Vertex or Google made without their progress callback
\* is not streamed: it returns the whole response
VendorResponds(text) ==
  /\ pc = "vendor"
  /\ inv.req.stream
  /\ ~ConsumesStream(inv.adapter, inv.req)
  /\ ~HandsOverStream(inv.adapter, inv.req)
  /\ content' = text
  /\ Settle(Fulfilled("completion",
                      ModelName(inv.adapter, frame.model, config)))
  /\ UNCHANGED << registryVars, queryVars, stream, arrived, updates, clients,
                  vertexClient, vertexInit, inv, frame, chain, vendorCalls,
                  calledModels, delays, lastError >>
  /\ UNCHANGED cacheVars

\* the vendor's stream yields a fragment; the adapter, if it is iterating,
\* appends it to the accumulated text and passes it to the progress callback
FragmentArrives(frag) ==
  /\ stream = "open"
  /\ Len(arrived) < MaxFragments
  /\ arrived' = Append(arrived, frag)
  /\ IF pc = "streaming"
     THEN /\ content' = content \o frag
          /\ updates' = Append(updates, FragmentUpdate(frag))
     ELSE UNCHANGED << content, updates >>
  /\ UNCHANGED << registryVars, queryVars, stream, completionVars >>
  /\ UNCHANGED cacheVars

\* the vendor signals the end of the stream; the adapter, if it is
\* iterating, makes the final callback and returns the accumulated text
StreamEnds ==
  /\ stream = "open"
  /\ stream' = "ended"
  /\ IF pc = "streaming"
     THEN /\ updates' = Append(updates, FinalUpdate(inv.adapter, content))
          /\ Settle(Fulfilled("completion",
                              ModelName(inv.adapter, frame.model, config)))
     ELSE UNCHANGED << updates, pc, settled, promise, unhandled >>
  /\ UNCHANGED << registryVars, queryVars, arrived, content, clients,
                  vertexClient, vertexInit, inv, frame, chain, vendorCalls,
                  calledModels, delays, lastError >>
  /\ UNCHANGED cacheVars

\* the catch block of VertexAIProvider.generateCompletion for the failure msg
VertexCatch(msg) ==
  LET modelName == ModelName("vertex", frame.model, config)
      fallbackModels == VertexGetSuggestedModels(modelName)
  IN IF VertexIsRateLimit(msg) /\ VertexMayRetry(frame.retryCount)
     THEN /\ pc' = "timer"
          /\ delays' = Append(delays, VertexDelay(frame.retryCount))
          /\ UNCHANGED << frame, chain, vendorCalls, calledModels, settled,
                          promise, unhandled, modelCache >>
     ELSE IF /\ VertexIsNotFound(msg)
             /\ VertexMayFallback(fallbackModels, frame.triedFallback)
     THEN /\ frame' = VertexFallbackOptions(frame, fallbackModels)
          /\ chain' = Append(chain, "return")
          /\ pc' = "vendor"
          /\ vendorCalls' = vendorCalls + 1
          /\ calledModels' = Append(calledModels, fallbackModels[1])
          /\ modelCache' =
               CachedFor("vertex", modelCache,
                         VertexFallbackOptions(frame, fallbackModels),
                         inv.req, config)
          /\ UNCHANGED << delays, settled, promise, unhandled >>
     ELSE /\ Settle(Rejected(msg))
          /\ UNCHANGED << frame, chain, vendorCalls, calledModels, delays,
                          modelCache >>

\* the vendor call, or the stream the adapter is iterating over, fails
StreamFails(msg) ==
  /\ \/ pc = "vendor" /\ inv.req.stream
     \/ pc = "streaming" /\ stream = "open"
  /\ vendorCalls <= MaxFailures
  /\ lastError' = msg
  /\ stream' = IF stream = "open" THEN "failed" ELSE stream
  /\ IF inv.adapter = "vertex"
     THEN /\ VertexCatch(msg)
          /\ UNCHANGED updates
     ELSE IF inv.adapter = "google"
     THEN /\ updates' = IF GoogleMode(inv.req) = "stream"
                        THEN Append(updates, ErrorUpdate(msg))
                        ELSE updates
          /\ Settle(Rejected(GoogleFailure(inv.req, msg)))
          /\ UNCHANGED << frame, chain, vendorCalls, calledModels, delays,
                          modelCache >>
     ELSE /\ Settle(Rejected(PlainFailure(inv.adapter, inv.req, msg)))
          /\ UNCHANGED << updates, frame, chain, vendorCalls, calledModels,
                          delays, modelCache >>
  /\ UNCHANGED << registryVars, queryVars, arrived, content, clients,
                  vertexClient, vertexInit, inv >>

\* the setTimeout callback of Vertex's rate-limit retry runs
StreamTimerFires ==
  /\ pc = "timer"
  /\ inv.req.stream
  /\ frame' = VertexRetryOptions(frame)
  /\ chain' = Append(chain, "timer")
  /\ pc' = "vendor"
  /\ vendorCalls' = vendorCalls + 1
  /\ calledModels' =
       Append(calledModels, ModelName("vertex", frame.model, config))
  /\ modelCache' =
       CachedFor("vertex", modelCache, VertexRetryOptions(frame), inv.req,
                 config)
  /\ UNCHANGED << registryVars, queryVars, streamVars, clients, vertexClient,
                  vertexInit, inv, delays, lastError, settled, promise,
                  unhandled >>

NextStream ==
  \/ \E name \in ProviderNames, req \in Requests :
       StreamCompletion(name, req)
  \/ VendorOpensStream
  \/ \E text \in ResponseTexts : VendorResponds(text)
  \/ \E frag \in Fragments : FragmentArrives(frag)
  \/ StreamEnds
  \/ \E msg \in VendorErrors : StreamFails(msg)
  \/ StreamTimerFires

SpecStream == InitStream /\ [][NextStream]_vars

(* ------------------------ configuration changes ------------------------- *)
\* provider.isAvailable() of what getProvider() returns: the object literal
\* answers false, an adapter reads the configuration object it was given
ProviderIsAvailable(obj, cfg) ==
  obj.kind = "adapter" /\ IsAvailable(obj.name, cfg)

InitReconfig ==
  \E cfg \in {c \in SUBSET ConfigKeys : Cardinality(c) <= MaxKeys} :
    Constructed(cfg, "", AlphabeticalOrder, {})

\* a value of the configuration object is set after construction
ConfigGains(key) ==
  /\ key \notin config
  /\ Cardinality(config) < MaxKeys
  /\ config' = config \cup {key}
  /\ call' = NoQuery
  /\ ret' = NoAnswer
  /\ UNCHANGED << preferred, dirOrder, broken, providers, activeProvider,
                  isAvailable, nextObj, resolved, lastCall, completionVars,
                  prevRet, streamVars >>
  /\ UNCHANGED cacheVars

\* a value of the configuration object is removed after construction
ConfigLoses(key) ==
  /\ key \in config
  /\ config' = config \ {key}
  /\ call' = NoQuery
  /\ ret' = NoAnswer
  /\ UNCHANGED << preferred, dirOrder, broken, providers, activeProvider,
                  isAvailable, nextObj, resolved, lastCall, completionVars,
                  prevRet, streamVars >>
  /\ UNCHANGED cacheVars

\* a caller reads manager.isAvailable and manager.getProvider().isAvailable()
QueryAvailability ==
  /\ call' = [op |-> "isAvailable"]
  /\ ret' =
       [kind |-> "availability",
        manager |-> isAvailable,
        provider |->
          ProviderIsAvailable(
            getProvider(isAvailable, activeProvider, nextObj + 1), config)]
  /\ nextObj' = IF ~isAvailable /\ nextObj < MaxCalls
                THEN nextObj + 1 ELSE nextObj
  /\ UNCHANGED << config, preferred, dirOrder, broken, providers,
                  activeProvider, isAvailable, resolved, lastCall,
                  completionVars, prevRet, streamVars >>
  /\ UNCHANGED cacheVars

NextReconfig ==
  \/ \E key \in ConfigKeys : ConfigGains(key)
  \/ \E key \in ConfigKeys : ConfigLoses(key)
  \/ QueryAvailability
  \/ \E name \in ProviderNames : GenerateCompletion(name, NoInvocation.req)

SpecReconfig == InitReconfig /\ [][NextReconfig]_vars

(* -------------------------- adapters: getCapabilities ------------------- *)
\* the value of a configuration key that names a model
ConfiguredModel(key) ==
  CASE key = "OLLAMA_MODEL" -> << "mistral" >>
    [] key = "LMSTUDIO_MODEL" -> << "Mistral", "7b" >>
    [] key = "AZURE_OPENAI_DEPLOYMENT_NAME" -> << "my", "deployment" >>
    [] key = "VERTEX_MODEL" -> << "gemini", "2.0", "pro" >>
    [] key = "GOOGLE_DEFAULT_MODEL" -> << "gemini", "1.5", "pro" >>

\* a model identifier no adapter has a pattern for
UnknownModel == << "my", "model" >>

\* String.prototype.toLowerCase on the tokens of a model identifier
Lower(tok) ==
  CASE tok = "Llama" -> "llama"
    [] tok = "Mistral" -> "mistral"
    [] tok = "Mixtral" -> "mixtral"
    [] tok = "LLaVA" -> "llava"
    [] OTHER -> tok

ToLowerCase(s) == [i \in DOMAIN s |-> Lower(s[i])]

\* the descriptor with the keys in keys, those in on being true
Capabilities(keys, on) ==
  [kind |-> "capabilities", flags |-> [k \in keys |-> k \in on]]

\* modelName.includes(...) on a modelName that is undefined
IncludesTypeError ==
  [kind |-> "threw",
   error |-> "TypeError: Cannot read properties of undefined"]

OpenAIGetCapabilities(modelName) ==
  LET model == IF modelName = Omitted THEN << "gpt-4", "o" >> ELSE modelName
  IN Capabilities(
       {"vision", "tool_use", "json_mode", "prompt_caching", "reasoning",
        "large_context"},
       (IF Includes(model, << "gpt-4", "o" >>)
        THEN {"vision", "tool_use", "json_mode", "reasoning", "large_context"}
        ELSE {})
       \cup (IF Includes(model, << "o1" >>)
             THEN {"reasoning", "tool_use", "large_context"} ELSE {})
       \cup (IF Includes(model, << "gpt-4", ".1" >>)
             THEN {"prompt_caching", "tool_use", "json_mode"}
                  \cup (IF Includes(model, << "standard" >>)
                        THEN {"vision", "large_context"} ELSE {})
             ELSE {}))

AnthropicGetCapabilities(modelName) ==
  LET model == IF modelName = Omitted THEN << "claude-4", ".0", "sonnet" >>
               ELSE modelName
  IN Capabilities(
       {"vision", "tool_use", "json_mode", "reasoning", "large_context"},
       IF Includes(model, << "claude-4" >>)
       THEN {"vision", "tool_use", "json_mode", "reasoning", "large_context"}
       ELSE IF Includes(model, << "claude-3", ".5" >>)
       THEN {"vision", "tool_use", "json_mode"}
            \cup (IF Includes(model, << "sonnet" >>)
                  THEN {"large_context"} ELSE {})
       ELSE IF Includes(model, << "claude-3" >>)
       THEN {"vision"}
            \cup (IF \/ Includes(model, << "opus" >>)
                     \/ Includes(model, << "sonnet" >>)
                  THEN {"tool_use", "json_mode"} ELSE {})
            \cup (IF Includes(model, << "opus" >>)
                  THEN {"large_context"} ELSE {})
       ELSE {})

OllamaGetCapabilities(modelName, cfg) ==
  LET model == IF modelName # Omitted THEN modelName
               ELSE IF "OLLAMA_MODEL" \in cfg
               THEN ConfiguredModel("OLLAMA_MODEL")
               ELSE << "llama", "3" >>
  IN Capabilities(
       {"vision", "tool_use", "json_mode", "reasoning", "local"},
       {"local"}
       \cup (IF Includes(model, << "llama", "3" >>)
             THEN {"json_mode", "tool_use"}
             ELSE IF Includes(model, << "code", "llama" >>)
             THEN {"json_mode", "tool_use"}
             ELSE IF Includes(model, << "mistral" >>)
             THEN {"json_mode"}
             ELSE {})
       \cup (IF \/ Includes(model, << "vision" >>)
                \/ Includes(model, << "llava" >>)
             THEN {"vision"} ELSE {}))

AzureGetCapabilities(modelName, cfg) ==
  IF modelName = Omitted /\ "AZURE_OPENAI_DEPLOYMENT_NAME" \notin cfg
  THEN IncludesTypeError
  ELSE
    LET model == IF modelName # Omitted THEN modelName
                 ELSE ConfiguredModel("AZURE_OPENAI_DEPLOYMENT_NAME")
    IN Capabilities(
         {"vision", "tool_use", "json_mode", "reasoning", "large_context",
          "content_filtering", "on_your_data"},
         {"content_filtering", "on_your_data"}
         \cup (IF Includes(model, << "o3" >>) \/ Includes(model, << "o4" >>)
               THEN {"reasoning", "tool_use", "json_mode", "vision",
                     "large_context"}
               ELSE {})
         \cup (IF Includes(model, << "gpt-4", "o" >>)
               THEN {"vision", "tool_use", "json_mode", "large_context"}
               ELSE {})
         \cup (IF Includes(model, << "gpt-4", ".1" >>)
               THEN {"tool_use", "json_mode"}
                    \cup (IF Includes(model, << "standard" >>)
                          THEN {"vision", "large_context"} ELSE {})
               ELSE {}))

VertexGetCapabilities(modelName, cfg) ==
  LET model == IF modelName = Omitted THEN DefaultModel("vertex", cfg)
               ELSE modelName
      pro == Includes(model, << "pro" >>)
      flash == Includes(model, << "flash" >>)
  IN Capabilities(
       {"vision", "tool_use", "json_mode", "reasoning", "large_context",
        "streaming", "function_calling"},
       IF Includes(model, << "gemini", "2.5" >>)
       THEN {"vision", "tool_use", "json_mode", "streaming",
             "function_calling", "reasoning"}
            \cup (IF pro \/ flash THEN {"large_context"} ELSE {})
       ELSE IF Includes(model, << "gemini", "2.0" >>)
       THEN {"tool_use", "json_mode", "streaming", "function_calling"}
            \cup (IF pro THEN {"vision", "large_context", "reasoning"} ELSE {})
            \cup (IF flash THEN {"vision"} ELSE {})
       ELSE IF Includes(model, << "gemini", "1.5" >>)
       THEN {"vision", "tool_use", "streaming"}
            \cup (IF pro /\ ~flash
                  THEN {"large_context", "json_mode", "function_calling",
                        "reasoning"}
                  ELSE {})
            \cup (IF pro /\ flash THEN {"large_context", "reasoning"} ELSE {})
            \cup (IF flash THEN {"json_mode"} ELSE {})
            \cup (IF flash /\ (\/ Includes(model, << "flash", "001" >>)
                               \/ Includes(model, << "flash", "002" >>))
                  THEN {"function_calling"} ELSE {})
       ELSE IF Includes(model, << "gemini", "1.0" >>)
       THEN {"json_mode"}
            \cup (IF pro THEN {"vision", "tool_use", "function_calling"}
                  ELSE {})
       ELSE {})

GoogleGetCapabilities(modelName, cfg) ==
  LET model == IF modelName # Omitted THEN modelName
               ELSE IF "GOOGLE_DEFAULT_MODEL" \in cfg
               THEN ConfiguredModel("GOOGLE_DEFAULT_MODEL")
               ELSE << "gemini", "2.5", "flash" >>
      pro == Includes(model, << "pro" >>)
      flash == Includes(model, << "flash" >>)
  IN Capabilities(
       {"vision", "tool_use", "json_mode", "reasoning", "large_context",
        "streaming", "function_calling"},
       IF Includes(model, << "gemini", "2.5" >>)
       THEN {"vision", "tool_use", "json_mode", "streaming",
             "function_calling"}
            \cup (IF pro THEN {"reasoning", "large_context"} ELSE {})
            \cup (IF flash THEN {"large_context"} ELSE {})
       ELSE IF Includes(model, << "gemini", "2.0" >>)
       THEN {"tool_use", "json_mode", "streaming", "function_calling"}
            \cup (IF pro THEN {"vision", "large_context", "reasoning"} ELSE {})
            \cup (IF flash THEN {"vision"} ELSE {})
       ELSE IF Includes(model, << "gemini", "1.5" >>)
       THEN {"vision", "tool_use", "streaming"}
            \cup (IF pro /\ ~flash
                  THEN {"large_context", "json_mode", "function_calling"}
                  ELSE {})
            \cup (IF pro /\ flash THEN {"large_context"} ELSE {})
            \cup (IF flash THEN {"json_mode"} ELSE {})
            \cup (IF flash /\ (\/ Includes(model, << "flash", "001" >>)
                               \/ Includes(model, << "flash", "002" >>))
                  THEN {"function_calling"} ELSE {})
       ELSE {})

LMStudioGetCapabilities(modelName, cfg) ==
  LET model == IF modelName # Omitted THEN modelName
               ELSE IF "LMSTUDIO_MODEL" \in cfg
               THEN ConfiguredModel("LMSTUDIO_MODEL")
               ELSE << "local-model" >>
      lower == ToLowerCase(model)
  IN Capabilities(
       {"vision", "tool_use", "json_mode", "reasoning", "local"},
       {"local"}
       \cup (IF Includes(lower, << "llama" >>)
             THEN {"json_mode"}
                  \cup (IF Includes(model, << "3" >>)
                        THEN {"tool_use"} ELSE {})
             ELSE IF Includes(lower, << "mistral" >>)
             THEN {"json_mode"}
                  \cup (IF Includes(lower, << "mixtral" >>)
                        THEN {"reasoning"} ELSE {})
             ELSE {})
       \cup (IF \/ Includes(lower, << "vision" >>)
                \/ Includes(lower, << "llava" >>)
             THEN {"vision"} ELSE {}))

HuggingFaceGetCapabilities(modelName) ==
  LET model == IF modelName = Omitted THEN << "Mixtral", "8x22B" >>
               ELSE modelName
  IN Capabilities(
       {"vision", "tool_use", "json_mode", "reasoning", "large_context"},
       IF Includes(model, << "Llama", "3.1" >>)
       THEN {"json_mode", "tool_use"}
            \cup (IF Includes(model, << "70B" >>)
                  THEN {"vision", "reasoning", "large_context"} ELSE {})
            \cup (IF Includes(model, << "8B" >>)
                  THEN {"large_context"} ELSE {})
       ELSE IF Includes(model, << "Mixtral" >>)
       THEN {"json_mode", "large_context"}
            \cup (IF Includes(model, << "8x22B" >>)
                  THEN {"tool_use"} ELSE {})
       ELSE IF Includes(model, << "Mistral" >>)
       THEN {"json_mode"}
       ELSE IF Includes(model, << "zephyr" >>)
       THEN {"json_mode"}
       ELSE {})

getCapabilities(name, modelName, cfg) ==
  CASE name = "openai"      -> OpenAIGetCapabilities(modelName)
    [] name = "anthropic"   -> AnthropicGetCapabilities(modelName)
    [] name = "azure"       -> AzureGetCapabilities(modelName, cfg)
    [] name = "ollama"      -> OllamaGetCapabilities(modelName, cfg)
    [] name = "vertex"      -> VertexGetCapabilities(modelName, cfg)
    [] name = "google"      -> GoogleGetCapabilities(modelName, cfg)
    [] name = "lmstudio"    -> LMStudioGetCapabilities(modelName, cfg)
    [] name = "huggingface" -> HuggingFaceGetCapabilities(modelName)

(* --------------------- adapters: validateModelAvailability -------------- *)
\* s.startsWith(p)
StartsWith(s, p) == Len(p) <= Len(s) /\ SubSeq(s, 1, Len(p)) = p

\* the first n elements of s: s.slice(0, n)
Slice(s, n) == SubSeq(s, 1, IF Len(s) < n THEN Len(s) ELSE n)

\* what the vendor's model listing returns: it fails, or a list of ids
ListFails == [ok |-> FALSE, ids |-> << >>]
Listed(ids) == [ok |-> TRUE, ids |-> ids]

Listings(name) ==
  {ListFails, Listed(<< >>)} \cup
  CASE name = "openai" ->
         {Listed(<< << "gpt-3.5", "turbo" >> >>),
          Listed(<< << "gpt-4", "o", "mini" >>, << "gpt-3.5", "turbo" >> >>)}
    [] name = "ollama" ->
         {Listed(<< << "llama", "3", ":", "latest" >>, << "mistral" >> >>)}
    [] name = "huggingface" ->
         {Listed(<< << "mistralai/", "Mistral", "7B" >> >>)}
    [] OTHER -> {}

\* what the vendor's test call does: it succeeds (no message) or fails
TestOutcomes == {<< >>} \cup VendorErrors

\* the result objects; capabilities and alternatives are fields only some
\* results have
Validation(available, error, reason, capabilities, hasAlts, alts) ==
  [kind |-> "validation", available |-> available, error |-> error,
   reason |-> reason, capabilities |-> capabilities,
   hasAlternatives |-> hasAlts, alternatives |-> alts]

Validated(capabilities) ==
  Validation(TRUE, << >>, "none", capabilities, FALSE, << >>)

NotValidated(error) == Validation(FALSE, error, "none", NoAnswer, FALSE, << >>)

Alternatives(error, alternatives) ==
  Validation(FALSE, error, "none", NoAnswer, TRUE, alternatives)

TypeErrorMsg == << "TypeError: Cannot read properties of undefined" >>

\* the async function rejects: modelName.includes on an undefined modelName
\* in a catch block
ValidationThrows ==
  [kind |-> "threw",
   error |-> "TypeError: Cannot read properties of undefined"]

\* what the try block of a test-call validation throws (<< >>: nothing):
\* the vendor's error, or getCapabilities' TypeError
TestCallThrows(name, modelName, cfg, test) ==
  IF test # << >> THEN test
  ELSE IF getCapabilities(name, modelName, cfg).kind = "threw"
  THEN TypeErrorMsg
  ELSE << >>

OpenAIGetSimilarModels(modelName, ids) ==
  IF Includes(modelName, << "gpt-4", "o" >>)
  THEN Slice(SelectSeq(ids, LAMBDA id : Includes(id, << "gpt-4" >>)), 3)
  ELSE Slice(ids, 3)

OpenAIValidateModelAvailability(modelName, cfg, listing) ==
  LET asked == IF modelName = Omitted THEN << "undefined" >> ELSE modelName
      available == \E i \in 1..Len(listing.ids) :
                     \/ listing.ids[i] = modelName
                     \/ Includes(listing.ids[i], asked)
      capabilities == getCapabilities("openai", modelName, cfg)
  IN IF ~listing.ok THEN NotValidated(InternalMsg)
     ELSE IF capabilities.kind = "threw" THEN NotValidated(TypeErrorMsg)
     ELSE IF available
     THEN Validation(TRUE, << >>, "none", capabilities, TRUE, << >>)
     ELSE IF modelName = Omitted THEN NotValidated(TypeErrorMsg)
     ELSE Validation(FALSE, << >>, "none", capabilities, TRUE,
                     OpenAIGetSimilarModels(modelName, listing.ids))

AnthropicGetSuggestedModels(modelName) ==
  IF Includes(modelName, << "claude-4" >>)
  THEN << << "claude-3.5-sonnet" >>, << "claude-3-opus" >>,
          << "claude-3-sonnet" >> >>
  ELSE IF Includes(modelName, << "claude-3", ".5" >>)
  THEN << << "claude-3-sonnet" >>, << "claude-3-haiku" >> >>
  ELSE << << "claude-3-haiku" >>, << "claude-instant-1.2" >> >>

AnthropicValidateModelAvailability(modelName, cfg, test) ==
  LET thrown == TestCallThrows("anthropic", modelName, cfg, test)
  IN IF thrown = << >>
     THEN Validated(getCapabilities("anthropic", modelName, cfg))
     ELSE IF modelName = Omitted THEN ValidationThrows
     ELSE Alternatives(thrown, AnthropicGetSuggestedModels(modelName))

\* the list getSuggestedModels falls back to when listing fails
OllamaFallbackModels ==
  << << "llama3" >>, << "mistral" >>, << "codellama" >>, << "llama2" >> >>

\* getSuggestedModels(): lists the local models again
OllamaGetSuggestedModels(again) ==
  IF again.ok THEN Slice(again.ids, 5) ELSE OllamaFallbackModels

OllamaValidateModelAvailability(modelName, cfg, listing, again) ==
  LET asked == IF modelName = Omitted THEN << "undefined" >> ELSE modelName
      found == \E i \in 1..Len(listing.ids) :
                 \/ listing.ids[i] = modelName
                 \/ StartsWith(listing.ids[i], asked \o << ":" >>)
      capabilities == getCapabilities("ollama", modelName, cfg)
  IN IF ~listing.ok
     THEN NotValidated(<< "Could not connect to Ollama host:" >>
                         \o InternalMsg)
     ELSE IF found
     THEN IF capabilities.kind = "threw"
          THEN NotValidated(<< "Could not connect to Ollama host:" >>
                              \o TypeErrorMsg)
          ELSE Validated(capabilities)
     ELSE Alternatives(<< "Model" >> \o asked
                         \o << "is not available locally" >>,
                       OllamaGetSuggestedModels(again))

AzureGetSuggestedDeployments(modelName) ==
  IF Includes(modelName, << "o4" >>)
  THEN << << "o3" >>, << "gpt-4o" >>, << "gpt-4.1-standard" >> >>
  ELSE IF Includes(modelName, << "gpt-4", "o" >>)
  THEN << << "gpt-4.1-standard" >>, << "gpt-4.1-mini" >> >>
  ELSE << << "gpt-4.1-mini" >>, << "gpt-35-turbo" >> >>

AzureValidateModelAvailability(modelName, cfg, test) ==
  LET thrown == TestCallThrows("azure", modelName, cfg, test)
  IN IF thrown = << >>
     THEN Validated(getCapabilities("azure", modelName, cfg))
     ELSE IF modelName = Omitted THEN ValidationThrows
     ELSE Alternatives(thrown, AzureGetSuggestedDeployments(modelName))

\* isModelNotFound of the Vertex and Google catch blocks
IsModelNotFound(msg) ==
  \/ Includes(msg, << "not", "found" >>)
  \/ Includes(msg, << "invalid", "model" >>)
  \/ Includes(msg, << "not", "available" >>)

GoogleGetSuggestedModels(modelName) == VertexGetSuggestedModels(modelName)

VertexValidateModelAvailability(modelName, cfg, test) ==
  LET thrown == TestCallThrows("vertex", modelName, cfg, test)
  IN IF thrown = << >>
     THEN Validated(getCapabilities("vertex", modelName, cfg))
     ELSE IF modelName = Omitted THEN ValidationThrows
     ELSE Validation(FALSE, thrown,
                     IF IsModelNotFound(thrown) THEN "model_not_found"
                     ELSE "api_error",
                     NoAnswer, TRUE, VertexGetSuggestedModels(modelName))

GoogleValidateModelAvailability(modelName, cfg, test) ==
  LET thrown == TestCallThrows("google", modelName, cfg, test)
  IN IF thrown = << >>
     THEN Validated(getCapabilities("google", modelName, cfg))
     ELSE IF modelName = Omitted THEN ValidationThrows
     ELSE Validation(FALSE, thrown,
                     IF IsModelNotFound(thrown) THEN "model_not_found"
                     ELSE "api_error",
                     NoAnswer, TRUE, GoogleGetSuggestedModels(modelName))

LMStudioAlternatives ==
  << << "local-model" >>, << "mistral" >>, << "llama" >>, << "phi" >> >>

LMStudioValidateModelAvailability(modelName, cfg, test) ==
  LET thrown == TestCallThrows("lmstudio", modelName, cfg, test)
  IN IF thrown = << >>
     THEN Validated(getCapabilities("lmstudio", modelName, cfg))
     ELSE Alternatives(<< "Model not available:" >> \o thrown,
                       LMStudioAlternatives)

HuggingFaceGetSuggestedModels(modelName) ==
  IF Includes(modelName, << "Llama", "3.1", "70B" >>)
  THEN << << "mistralai/Mixtral-8x22B-Instruct-v0.1" >>,
          << "meta-llama/Meta-Llama-3.1-8B-Instruct" >> >>
  ELSE IF Includes(modelName, << "Mixtral", "8x22B" >>)
  THEN << << "meta-llama/Meta-Llama-3.1-8B-Instruct" >>,
          << "mistralai/Mistral-7B-Instruct-v0.3" >> >>
  ELSE << << "mistralai/Mistral-7B-Instruct-v0.3" >>,
          << "HuggingFaceH4/zephyr-7b-beta" >> >>

\* listing.ids: the listed models whose task is text-generation. An omitted
\* modelName is never listed, and getSuggestedModels(undefined) throws into
\* the catch block, which falls back to the test call
HuggingFaceValidateModelAvailability(modelName, cfg, listing, test) ==
  LET capabilities == getCapabilities("huggingface", modelName, cfg)
      thrown == TestCallThrows("huggingface", modelName, cfg, test)
      listed == \E i \in 1..Len(listing.ids) : listing.ids[i] = modelName
  IN IF listing.ok /\ listed /\ capabilities.kind # "threw"
     THEN Validated(capabilities)
     ELSE IF listing.ok /\ ~listed /\ modelName # Omitted
     THEN Alternatives(<< "Model" >> \o modelName
                         \o << "is not available for chat completion" >>,
                       HuggingFaceGetSuggestedModels(modelName))
     ELSE IF thrown = << >> THEN Validated(capabilities)
     ELSE IF modelName = Omitted THEN ValidationThrows
     ELSE Alternatives(thrown, HuggingFaceGetSuggestedModels(modelName))

\* the message of validateModelAvailability when !isAvailable()
NotProvidedError(name) ==
  CASE name = "openai"      -> << "OpenAI API key not provided" >>
    [] name = "anthropic"   -> << "Anthropic API key not provided" >>
    [] name = "azure"       -> << "Azure OpenAI credentials not provided" >>
    [] name = "ollama"      -> << "Ollama host not provided" >>
    [] name = "vertex"      -> << "Vertex AI provider is not configured." >>
    [] name = "google"      -> << "Google API key not provided" >>
    [] name = "lmstudio"    -> << "LM Studio API base URL not provided" >>
    [] name = "huggingface" -> << "Hugging Face API key not provided" >>

\* vendor: how the vendor answers the calls the adapter makes (its model
\* listing, the same listing asked again, its test call, the test call made
\* again for a fallback model)
validateModelAvailability(name, modelName, cfg, vendor) ==
  IF ~IsAvailable(name, cfg) THEN NotValidated(NotProvidedError(name))
  ELSE
    CASE name = "openai" ->
           OpenAIValidateModelAvailability(modelName, cfg, vendor.listing)
      [] name = "anthropic" ->
           AnthropicValidateModelAvailability(modelName, cfg, vendor.test)
      [] name = "azure" ->
           AzureValidateModelAvailability(modelName, cfg, vendor.test)
      [] name = "ollama" ->
           OllamaValidateModelAvailability(modelName, cfg, vendor.listing,
                                           vendor.again)
      [] name = "vertex" ->
           VertexValidateModelAvailability(modelName, cfg, vendor.test)
      [] name = "google" ->
           GoogleValidateModelAvailability(modelName, cfg, vendor.test)
      [] name = "lmstudio" ->
           LMStudioValidateModelAvailability(modelName, cfg, vendor.test)
      [] name = "huggingface" ->
           HuggingFaceValidateModelAvailability(modelName, cfg,
                                                vendor.listing, vendor.test)

\* the answers the vendor of adapter name may give
VendorAnswers(name) ==
  [listing : Listings(name),
   again : IF name = "ollama" THEN Listings(name) ELSE {ListFails},
   test : TestOutcomes,
   retest : IF name \in {"vertex", "google"} THEN TestOutcomes ELSE {<< >>}]

\* a caller asks adapter name whether modelName is available; the adapter
\* has its client
ValidateModelAvailability(name, modelName, vendor) ==
  /\ call.op = "none"
  /\ InSeq(name, providers)
  /\ IsAvailable(name, config)
       => IF name = "vertex" THEN vertexClient ELSE name \in clients
  /\ name = "ollama" /\ vendor.listing.ok /\ vendor.again.ok
       => vendor.again = vendor.listing
  /\ vendor.retest = << >>
  /\ call' = [op |-> "validateModelAvailability", adapter |-> name,
              arg |-> modelName, vendor |-> vendor]
  /\ ret' = validateModelAvailability(name, modelName, config, vendor)
  /\ prevRet' = NoAnswer
  /\ UNCHANGED << registryVars, completionVars, streamVars >>
  /\ UNCHANGED cacheVars

(* --------------------------- adapters: testConnection ------------------- *)
\* the result objects of testConnection
Connected(model) ==
  [kind |-> "connection", success |-> TRUE, error |-> << >>, model |-> model]

NotConnected(error) ==
  [kind |-> "connection", success |-> FALSE, error |-> error,
   model |-> << >>]

\* the message of testConnection when !isAvailable()
TestNotProvidedError(name) ==
  IF name = "vertex" THEN << "Vertex AI credentials not provided." >>
  ELSE IF name = "azure" THEN << "Azure OpenAI credentials not provided." >>
  ELSE NotProvidedError(name) \o << "." >>

\* the options of the generateCompletion call testConnection makes
TestRequest(model) ==
  [model |-> model, stream |-> FALSE, callback |-> "none", tools |-> FALSE]

\* what the catch block of the Vertex and Google testConnection returns for
\* the failure error of the first attempt
GeminiTestCatch(name, error, retest, cfg) ==
  IF VertexIsNotFound(error)
  THEN IF retest = << >> THEN Connected(<< "gemini", "1.5", "flash" >>)
       ELSE NotConnected(
              << "Failed to connect with default and fallback models:" >>
                \o error)
  ELSE IF name = "vertex"
  THEN NotConnected(<< "Failed to connect to Vertex AI:" >> \o error)
  ELSE NotConnected(error)

testConnection(name, cfg, vendor) ==
  IF ~IsAvailable(name, cfg) THEN NotConnected(TestNotProvidedError(name))
  ELSE
    CASE name = "openai" ->
           IF vendor.test = << >> THEN Connected(<< "gpt-4", "o" >>)
           ELSE NotConnected(
                  PlainFailure(name, TestRequest(<< "gpt-4", "o" >>),
                               vendor.test))
      [] name = "anthropic" ->
           IF vendor.test = << >> THEN Connected(<< "claude-3", "haiku" >>)
           ELSE NotConnected(
                  PlainFailure(name, TestRequest(<< "claude-3", "haiku" >>),
                               vendor.test))
      [] name = "azure" ->
           IF vendor.test = << >>
           THEN Connected(ConfiguredModel("AZURE_OPENAI_DEPLOYMENT_NAME"))
           ELSE NotConnected(
                  PlainFailure(name, TestRequest(Omitted), vendor.test))
      [] name = "huggingface" ->
           IF vendor.test = << >>
           THEN Connected(<< "HuggingFaceH4/", "zephyr", "7b", "beta" >>)
           ELSE NotConnected(
                  PlainFailure(name,
                    TestRequest(<< "HuggingFaceH4/", "zephyr", "7b", "beta" >>),
                    vendor.test))
      [] name = "ollama" ->
           IF vendor.listing.ok /\ vendor.test = << >>
           THEN Connected(IF "OLLAMA_MODEL" \in cfg
                          THEN ConfiguredModel("OLLAMA_MODEL")
                          ELSE IF vendor.listing.ids # << >>
                          THEN vendor.listing.ids[1]
                          ELSE << "llama", "3" >>)
           ELSE NotConnected(
                  << "Failed to connect to Ollama. Is Ollama running? Error:" >>
                    \o (IF vendor.listing.ok THEN vendor.test
                        ELSE InternalMsg))
      [] name = "lmstudio" ->
           IF vendor.test = << >>
           THEN Connected(IF "LMSTUDIO_MODEL" \in cfg
                          THEN ConfiguredModel("LMSTUDIO_MODEL")
                          ELSE << "local-model" >>)
           ELSE NotConnected(
                  << "Failed to connect to LM Studio. Error:" >>
                    \o vendor.test)
      [] name = "vertex" ->
           IF vendor.test = << >> THEN Connected(DefaultModel(name, cfg))
           ELSE GeminiTestCatch(name, vendor.test, vendor.retest, cfg)
      [] name = "google" ->
           IF vendor.test = << >> THEN Connected(DefaultModel(name, cfg))
           ELSE GeminiTestCatch(
                  name,
                  GoogleFailure(TestRequest(DefaultModel(name, cfg)),
                                vendor.test),
                  IF vendor.retest = << >> THEN << >>
                  ELSE GoogleFailure(
                         TestRequest(<< "gemini", "1.5", "flash" >>),
                         vendor.retest),
                  cfg)

\* a caller tests the connection of adapter name; the adapter has its client
TestConnection(name, vendor) ==
  /\ call.op = "none"
  /\ InSeq(name, providers)
  /\ IsAvailable(name, config)
       => IF name = "vertex" THEN vertexClient ELSE name \in clients
  /\ vendor.again = ListFails
  /\ name # "ollama" => vendor.listing = ListFails
  /\ call' = [op |-> "testConnection", adapter |-> name, arg |-> Omitted,
              vendor |-> vendor]
  /\ ret' = testConnection(name, config, vendor)
  /\ prevRet' = NoAnswer
  /\ UNCHANGED << registryVars, completionVars, streamVars >>
  /\ UNCHANGED cacheVars

\* model identifiers of each adapter's family, an unknown one, and none
ModelIds(name) ==
  {Omitted, UnknownModel} \cup
  CASE name \in {"openai", "azure"} ->
         {<< "gpt-4", "o" >>, << "gpt-4", ".1", "standard" >>,
          << "gpt-4", ".1", "nano" >>,
          << "o1", "preview" >>, << "o3" >>, << "o4", "mini" >>}
    [] name = "anthropic" ->
         {<< "claude-4", ".0", "opus" >>, << "claude-3", ".5", "haiku" >>,
          << "claude-3", "opus" >>, << "claude-3", "haiku" >>}
    [] name \in {"ollama", "lmstudio"} ->
         {<< "llama", "3" >>, << "code", "llama" >>, << "mistral" >>,
          << "Mixtral", "8x7b" >>, << "llava" >>, << "Llama", "2" >>}
    [] name \in {"vertex", "google"} -> RequestModels
    [] name = "huggingface" ->
         {<< "meta-llama/Meta", "Llama", "3.1", "70B", "Instruct" >>,
          << "mistralai/", "Mixtral", "8x7B" >>,
          << "mistralai/", "Mixtral", "8x22B", "Instruct" >>,
          << "mistralai/", "Mistral", "7B" >>,
          << "HuggingFaceH4/", "zephyr", "7b", "beta" >>}

\* the configuration keys that name a default model
DefaultModelKeys ==
  {"OLLAMA_MODEL", "LMSTUDIO_MODEL", "AZURE_OPENAI_DEPLOYMENT_NAME",
   "VERTEX_MODEL", "GOOGLE_DEFAULT_MODEL"}

(* -------------------------- capability actions -------------------------- *)
InitModels ==
  \E keys \in SUBSET DefaultModelKeys :
    \E credentials \in {{}, EveryAdapterConfigured} :
      Constructed(keys \cup credentials, "", AlphabeticalOrder, {})

\* a caller asks adapter name for the capabilities of modelName; the
\* adapters keep nothing between two queries, so a behaviour has one query
GetCapabilities(name, modelName) ==
  /\ call.op = "none"
  /\ InSeq(name, providers)
  /\ call' = [op |-> "getCapabilities", adapter |-> name, arg |-> modelName]
  /\ ret' = getCapabilities(name, modelName, config)
  /\ prevRet' = NoAnswer
  /\ UNCHANGED << registryVars, completionVars, streamVars >>
  /\ UNCHANGED cacheVars

NextModels ==
  \/ \E name \in ProviderNames :
       \E modelName \in ModelIds(name) : GetCapabilities(name, modelName)
  \/ \E name \in ProviderNames :
       \E modelName \in ModelIds(name), vendor \in VendorAnswers(name) :
         ValidateModelAvailability(name, modelName, vendor)
  \/ \E name \in ProviderNames :
       \E vendor \in VendorAnswers(name) : TestConnection(name, vendor)

SpecModels == InitModels /\ [][NextModels]_vars

(* -------------------- adapters: the system channel ---------------------- *)
\* the message lists of the requests: role and content of each message
MessageLists ==
  UNION {[1..n -> [role : {"system", "user", "assistant"},
                   content : {<< >>, << "s" >>, << "t" >>}]] :
           n \in 0..MaxMessages}

NotSystem(m) == m.role # "system"

\* messages.find(m => m.role === 'system'): the first one, if any
HasSystem(messages) == \E i \in 1..Len(messages) : ~NotSystem(messages[i])

FirstSystem(messages) ==
  messages[CHOOSE i \in 1..Len(messages) :
             /\ ~NotSystem(messages[i])
             /\ \A j \in 1..(i - 1) : NotSystem(messages[j])]

\* the system channel of the vendor call: left unset, or set to a text
Unset == [set |-> FALSE, text |-> << >>]

SetTo(text) == [set |-> TRUE, text |-> text]

\* params.system and params.messages of AnthropicProvider.generateCompletion
AnthropicParams(messages) ==
  [kind |-> "params",
   system |-> IF HasSystem(messages) THEN SetTo(FirstSystem(messages).content)
              ELSE Unset,
   messages |-> SelectSeq(messages, NotSystem)]

\* variant: the system messages stay in the list
GoogleParamsKeepsSystem(messages) ==
  LET systemInstruction ==
        IF HasSystem(messages) THEN FirstSystem(messages).content ELSE << >>
  IN [kind |-> "params",
      system |-> IF systemInstruction # << >> THEN SetTo(systemInstruction)
                 ELSE Unset,
      messages |->
        [i \in 1..Len(messages) |->
           [role |-> IF messages[i].role = "assistant" THEN "model"
                     ELSE messages[i].role,
            parts |-> << [text |-> messages[i].content] >>]]]

\* modelOptions.systemInstruction and contents of
\* GoogleProvider.generateCompletion; an undefined or empty systemInstruction
\* is falsy
GoogleParams(messages) ==
  LET systemInstruction ==
        IF HasSystem(messages) THEN FirstSystem(messages).content ELSE << >>
      kept == SelectSeq(messages, NotSystem)
  IN [kind |-> "params",
      system |-> IF systemInstruction # << >> THEN SetTo(systemInstruction)
                 ELSE Unset,
      messages |->
        [i \in 1..Len(kept) |->
           [role |-> IF kept[i].role = "assistant" THEN "model"
                     ELSE kept[i].role,
            parts |-> << [text |-> kept[i].content] >>]]]

InitMessages == Constructed(EveryAdapterConfigured, "", AlphabeticalOrder, {})

\* adapter.generateCompletion(messages, options) builds the parameters of
\* its vendor call
TranslateMessages(name, messages) ==
  /\ call.op = "none"
  /\ InSeq(name, providers)
  /\ IsAvailable(name, config)
  /\ name \in clients
  /\ call' = [op |-> "generateCompletion", adapter |-> name, arg |-> messages]
  /\ ret' = IF name = "anthropic" THEN AnthropicParams(messages)
            ELSE GoogleParams(messages)
  /\ prevRet' = NoAnswer
  /\ UNCHANGED << registryVars, completionVars, streamVars, cacheVars >>

NextMessages ==
  \E name \in {"anthropic", "google"}, messages \in MessageLists :
    TranslateMessages(name, messages)

SpecMessages == InitMessages /\ [][NextMessages]_vars

(* ================================ claims ================================ *)
NoneConfigured == \A n \in ProviderNames : ~IsAvailable(n, config)

Unconfigured(name) == CredentialKeys(name) \cap config = {}

\* C1: an adapter built from a configuration with none of its credentials or
\* endpoints reports isAvailable() false, and a generateCompletion call on it
\* rejects with that adapter's not-configured error before any vendor call.
C1_UnconfiguredAdapterRejects ==
  /\ \A n \in ProviderNames : Unconfigured(n) => ~IsAvailable(n, config)
  /\ (pc # "idle" /\ Unconfigured(inv.adapter)) =>
       /\ pc = "done"
       /\ promise = Rejected(<< NotConfiguredError(inv.adapter) >>)
       /\ vendorCalls = 0

C1_Witness ==
  /\ pc = "done"
  /\ inv.adapter = "lmstudio"
  /\ Unconfigured("lmstudio")
  /\ config # {}
  /\ promise.state = "rejected"

\* C2: when no adapter is configured at construction, a completion requested
\* through getProvider() fails with the no-provider error, which is none of
\* the adapters' own errors, and with nothing else.
C2_NoProviderError ==
  NoneConfigured =>
    /\ getProvider(isAvailable, activeProvider, nextObj + 1).kind = "dummy"
    /\ lastCall.op = "generateCompletion" =>
         /\ lastCall.outcome = "threw"
         /\ lastCall.value = NoProviderError
         /\ \A n \in ProviderNames : NotConfiguredError(n) # lastCall.value

C2_Witness ==
  /\ NoneConfigured
  /\ config # {}
  /\ lastCall.op = "generateCompletion"
  /\ lastCall.outcome = "threw"

\* C3 (as claimed): when no adapter is configured, every operation of the
\* object getProvider() returns gives back a value and none of them throws.
C3_DummyNeverThrows ==
  (NoneConfigured /\ lastCall.op # "none") => lastCall.outcome = "returned"

PreferredUsable ==
  preferred # "" /\ InSeq(preferred, providers) /\ IsAvailable(preferred, config)

\* C4: if AI_PROVIDER names a loaded adapter whose isAvailable() is true,
\* determineActiveProvider selects that adapter, whatever else is configured.
C4_PreferredWins ==
  PreferredUsable =>
    /\ activeProvider = preferred
    /\ \A i \in 1..Len(resolved) :
         resolved[i].op = "determineActiveProvider" =>
           resolved[i].obj = AdapterObj(preferred)

C4_Witness ==
  /\ PreferredUsable
  /\ AutoDetect(providers, config) # preferred
  /\ \E i \in 1..Len(resolved) :
       /\ resolved[i].op = "determineActiveProvider"
       /\ resolved[i].obj = AdapterObj(preferred)

EnterpriseHosted == {"azure", "vertex"}
CommunityOrLocal == {"huggingface", "ollama", "lmstudio"}

\* C5 (as claimed): without a usable preferred provider the active adapter is
\* the first configured one of a fixed priority list that puts azure and
\* vertex before huggingface, ollama and lmstudio: a community or local
\* adapter is never active while an enterprise-hosted one is loaded and
\* configured.
C5_EnterpriseBeforeLocal ==
  (/\ ~PreferredUsable
   /\ \E e \in EnterpriseHosted : InSeq(e, providers) /\ IsAvailable(e, config))
    => activeProvider \notin CommunityOrLocal

\* C6 (as claimed): under one configuration snapshot, every
\* determineActiveProvider call returns the same instance and every
\* getProvider call returns the same instance, also when none is configured.
C6_SameIdentity ==
  \A i, j \in 1..Len(resolved) :
    resolved[i].op = resolved[j].op => resolved[i].obj = resolved[j].obj

PureRateLimit(msg) == VertexIsRateLimit(msg) /\ ~VertexIsNotFound(msg)
PureNotFound(msg) == VertexIsNotFound(msg) /\ ~VertexIsRateLimit(msg)

\* C7 (as claimed): when the Vertex vendor call fails with a rate-limit error
\* on the first attempt and on each of the three retries, the invocation ends
\* with the caller's promise rejected with that error, after four vendor calls.
C7_RateLimitSurfaces ==
  (/\ inv.adapter = "vertex"
   /\ pc = "done"
   /\ frame.retryCount = 3
   /\ ~frame.triedFallback
   /\ settled.state = "rejected"
   /\ PureRateLimit(settled.error))
    => /\ promise = Rejected(settled.error)
       /\ vendorCalls = 4

\* C8 (as claimed): an invocation makes a bounded number of vendor calls and
\* each retry path ends at its ceiling: when the Google adapter's standard
\* completion has failed with a rate-limit error and the invocation is over,
\* it is that rate-limit error that the caller gets.
C8_RetryEndsAtCeiling ==
  /\ vendorCalls <= 5
  /\ (/\ inv.adapter = "google"
      /\ pc = "done"
      /\ GoogleMode(inv.req) = "standard"
      /\ GoogleIsRateLimit(lastError))
       => promise = Rejected(lastError)

\* C9 (as claimed): a model-not-found failure of a call that already runs on
\* the fallback model, also after rate-limit retries, is not followed by
\* another fallback and reaches the caller.
C9_SecondNotFoundPropagates ==
  (/\ inv.adapter = "vertex"
   /\ pc = "done"
   /\ frame.triedFallback
   /\ settled.state = "rejected"
   /\ PureNotFound(settled.error))
    => promise = Rejected(settled.error)

RequestedModel == ModelName("vertex", inv.req.model, config)

\* C10: when the requested model failed as not found and the vendor call on
\* the fallback model succeeds, generateCompletion resolves and the response's
\* model is the first suggested model, not the requested one.
C10_FallbackModelReported ==
  (/\ inv.adapter = "vertex"
   /\ pc = "done"
   /\ frame.triedFallback
   /\ settled.state = "fulfilled")
    => /\ promise.state = "fulfilled"
       /\ promise.model = VertexGetSuggestedModels(RequestedModel)[1]
       /\ promise.model # RequestedModel

C10_Witness ==
  /\ inv.adapter = "vertex"
  /\ pc = "done"
  /\ frame.triedFallback
  /\ inv.req.model # Omitted
  /\ promise.state = "fulfilled"
  /\ promise.model = << "gemini", "2.5", "flash" >>

(* ---- getModelRecommendation ---- *)
Recommended == call.op = "getModelRecommendation"

Flagged == call.arg.breaking \/ call.arg.complex

Tier == TierOfReason(ret.reason)

\* the adapters that serve whatever model is loaded locally
LocalAdapters == {"ollama", "lmstudio"}

\* C11: with the two flags held constant, a change with more lines or more
\* files is never recommended a lower tier of the adapter's table
C11_LargerNeverLowerTier ==
  (Recommended /\ prevRet.kind = "recommendation")
    => TierOfReason(prevRet.reason) <= Tier

\* a larger change moved the OpenAI recommendation to a higher tier
C11_Witness ==
  /\ Recommended
  /\ call.adapter = "openai"
  /\ prevRet.kind = "recommendation"
  /\ TierOfReason(prevRet.reason) < Tier

\* C12: when breaking or complex is set the adapter returns its top-tier
\* model, the same for every line count and every file count
C12_FlaggedGetsTopTier ==
  (Recommended /\ Flagged)
    => /\ Tier = IF call.adapter \in LocalAdapters THEN 0 ELSE 4
       /\ ret = getModelRecommendation(call.adapter,
                   [lines |-> 0, files |-> 0, breaking |-> TRUE,
                    complex |-> FALSE], config)

\* a complex change above every size threshold gets Anthropic's top model
C12_Witness ==
  /\ Recommended
  /\ call.adapter = "anthropic"
  /\ call.arg.complex /\ ~call.arg.breaking
  /\ call.arg.lines > 1500 /\ call.arg.files > 30
  /\ ret.model = "claude-4.0-opus"

StreamedCallResolved == inv.req.stream /\ promise.state = "fulfilled"

\* the fragments the progress callback was passed, in order
Delivered_Fragments ==
  LET u == SelectSeq(updates, LAMBDA x : ~x.done)
  IN [i \in 1..Len(u) |-> u[i].content]

\* the last n elements of s
Last(s, n) == SubSeq(s, Len(s) - n + 1, Len(s))

\* C14: generateCompletion with stream set resolves to one final response
\* whose content is the accumulated text, whether or not a progress
\* callback is passed
C14_StreamResolvesToContent ==
  StreamedCallResolved => promise.kind = "completion"

\* C15: a streamed generateCompletion does not resolve until the vendor has
\* signalled the end of the stream, and by then the progress callback has
\* been passed every fragment in arrival order
C15_ResolvesAfterEndOfStream ==
  StreamedCallResolved
    => /\ stream # "open"
       /\ ConsumesStream(inv.adapter, inv.req)
            => /\ Len(Delivered_Fragments) >= Len(arrived)
               /\ Last(Delivered_Fragments, Len(arrived)) = arrived

(* ---- other vendor failures ---- *)
\* the latest vendor call failed with a message that no adapter takes for a
\* rate limit or for a missing model, and the call has settled
OtherVendorFailure ==
  /\ pc = "done"
  /\ settled.state = "rejected"
  /\ vendorCalls > 0
  /\ lastError = InternalMsg

\* C16: a vendor failure that is neither a rate limit nor a missing model
\* reaches the caller as the same error, its message unchanged
C16_OtherFailureUnchanged ==
  OtherVendorFailure => promise = Rejected(lastError)

(* ---- loading failures ---- *)
\* VERTEX_CREDENTIALS is set and is not JSON: the Vertex adapter was
\* constructed and its initializeClient() has already ended without a client
MalformedCredentials ==
  /\ "VERTEX_CREDENTIALS" \in config
  /\ "VERTEX_PROJECT_ID" \in config
  /\ "vertex" \notin broken
  /\ vertexInit = "idle"
  /\ ~vertexClient

\* the adapters whose loading or construction failed
FailedToLoad ==
  broken \cup (IF MalformedCredentials THEN {"vertex"} ELSE {})

\* C17: an adapter whose loading or construction fails, malformed
\* credentials JSON included, is absent from the registry and is never the
\* active provider, and every other adapter is registered under its name
C17_FailedAdapterAbsent ==
  /\ \A n \in FailedToLoad :
       /\ ~InSeq(n, providers)
       /\ activeProvider # n
       /\ \A i \in 1..Len(resolved) : resolved[i].obj # ObjOf(n)
  /\ \A n \in ProviderNames \ FailedToLoad : InSeq(n, providers)

(* ---- configuration changes ---- *)
\* some registered adapter has its credentials in the current configuration
SomeAdapterConfigured ==
  \E i \in 1..Len(providers) : IsAvailable(providers[i], config)

\* C18: an availability query on the registry, made after the configuration
\* changed, reflects the current configuration: both manager.isAvailable
\* and isAvailable() of the provider getProvider() returns
C18_AvailabilityFollowsConfig ==
  call.op = "isAvailable"
    => /\ ret.manager = SomeAdapterConfigured
       /\ ret.provider = SomeAdapterConfigured

(* ---- getCapabilities ---- *)
\* C19: getCapabilities returns a descriptor for every model identifier, an
\* omitted one included, and for an identifier that matches none of the
\* adapter's patterns every flag of the descriptor is false
C19_CapabilitiesTotalAndAllFalse ==
  call.op = "getCapabilities"
    => /\ ret.kind = "capabilities"
       /\ call.arg = UnknownModel
            => \A k \in DOMAIN ret.flags : ~ret.flags[k]

(* ---- validateModelAvailability ---- *)
\* the adapter found that the requested model does not exist: it is missing
\* from the vendor's listing, or the test call failed as model not found
ModelDoesNotExist ==
  /\ call.op = "validateModelAvailability"
  /\ IsAvailable(call.adapter, config)
  /\ ret.kind = "validation"
  /\ ~ret.available
  /\ IF call.adapter \in {"openai", "ollama"}
     THEN call.vendor.listing.ok
     ELSE IF call.adapter = "huggingface" /\ call.vendor.listing.ok
     THEN TRUE
     ELSE call.vendor.test = NotFoundMsg

\* the rows of the adapter's static table of alternatives
StaticRows(name) ==
  CASE name = "openai" -> {}
    [] name = "ollama" -> {OllamaFallbackModels}
    [] name = "lmstudio" -> {LMStudioAlternatives}
    [] name = "anthropic" ->
         {AnthropicGetSuggestedModels(id) : id \in ModelIds(name) \ {Omitted}}
    [] name = "azure" ->
         {AzureGetSuggestedDeployments(id) : id \in ModelIds(name) \ {Omitted}}
    [] name \in {"vertex", "google"} ->
         {VertexGetSuggestedModels(id) : id \in ModelIds(name) \ {Omitted}}
    [] name = "huggingface" ->
         {HuggingFaceGetSuggestedModels(id) :
            id \in ModelIds(name) \ {Omitted}}

\* C20: when an adapter reports a model as not available because it does
\* not exist, the result carries a non-empty list of alternatives, a row of
\* the adapter's static fallback table
C20_MissingModelHasAlternatives ==
  ModelDoesNotExist
    => /\ ret.hasAlternatives
       /\ ret.alternatives # << >>
       /\ ret.alternatives \in StaticRows(call.adapter)

(* ---- recommendation without an active adapter ---- *)
\* C21: when no adapter is active, a model recommendation asked of the
\* registry's provider is null: neither a model name nor a reason
C21_NullRecommendation ==
  (~isAvailable /\ lastCall.op = "getModelRecommendation")
    => lastCall.value = "null"

(* ---- the diagnostic operations ---- *)
\* the vendor failed a call the diagnostic operation made
DiagnosticVendorFailure ==
  /\ call.op \in {"testConnection", "validateModelAvailability"}
  /\ IsAvailable(call.adapter, config)
  /\ IF call.adapter \in {"openai", "ollama"}
          /\ call.op = "validateModelAvailability"
     THEN ~call.vendor.listing.ok
     ELSE IF call.adapter = "huggingface"
               /\ call.op = "validateModelAvailability"
     THEN ~call.vendor.listing.ok /\ call.vendor.test # << >>
     ELSE IF call.adapter = "ollama"
     THEN ~call.vendor.listing.ok \/ call.vendor.test # << >>
     ELSE call.vendor.test # << >>

\* C22: testConnection and validateModelAvailability never throw or reject:
\* on an unconfigured adapter they return success false or available false
\* at once, and a vendor failure comes back as a value with an error message
C22_DiagnosticsNeverThrow ==
  call.op \in {"testConnection", "validateModelAvailability"}
    => /\ ret.kind # "threw"
       /\ ~IsAvailable(call.adapter, config)
            => \/ ret = NotConnected(TestNotProvidedError(call.adapter))
               \/ ret = NotValidated(NotProvidedError(call.adapter))
       /\ (DiagnosticVendorFailure /\ ret.kind # "threw")
            => \/ ret.error # << >>
               \/ ret.kind = "connection" /\ ret.success

(* ---- Vertex: rate-limit backoff ---- *)
\* C23: the Vertex backoff waits 1000 ms before the first retry and twice the
\* previous wait before each further retry, and the attempts made for
\* rate-limit failures (the first attempt and the retries that follow one)
\* number at most 3
C23_BackoffDoublesThreeAttempts ==
  inv.adapter = "vertex"
    => /\ \A i \in 1..Len(delays) : delays[i] = 1000 * (2 ^ (i - 1))
       /\ Len(delays) + 1 <= 3

(* ---- validateModelAvailability: failure classes ---- *)
\* the error text of the vendor call that failed
ProbeError ==
  IF call.adapter \in {"openai", "ollama"} THEN InternalMsg
  ELSE call.vendor.test

\* C24: for every adapter, when the probe or the listing of
\* validateModelAvailability fails, the result has available false and its
\* reason is model_not_found exactly when the error text has a not-found
\* marker, api_error otherwise
C24_FailureClassified ==
  (call.op = "validateModelAvailability" /\ DiagnosticVendorFailure)
    => /\ ret.kind = "validation"
       /\ ~ret.available
       /\ ret.reason = IF IsModelNotFound(ProbeError) THEN "model_not_found"
                       ELSE "api_error"

(* ---- model-instance caches ---- *)
\* C26: the model-instance cache only grows (no entry is removed or
\* replaced), and it is keyed by the model and its generation options alone:
\* two calls for the same model with the same generation options (every
\* request here has the default ones) get the same cached instance
C26_CacheGrowsKeyedByModel ==
  /\ [][\A k \in DOMAIN modelCache :
          k \in DOMAIN modelCache' /\ modelCache'[k] = modelCache[k]]_vars
  /\ [](\A k1, k2 \in DOMAIN modelCache :
          (k1.adapter = k2.adapter /\ k1.model = k2.model)
            => modelCache[k1] = modelCache[k2])

(* ---- the system channel ---- *)
\* the request's messages other than the system ones, in their order
OtherMessages == SelectSeq(call.arg, NotSystem)

\* the list sent to the vendor has no system-role message and holds the
\* other messages in their original order
SentWithoutSystem ==
  /\ Len(ret.messages) = Len(OtherMessages)
  /\ \A i \in 1..Len(ret.messages) :
       /\ ret.messages[i].role # "system"
       /\ IF call.adapter = "anthropic"
          THEN ret.messages[i] = OtherMessages[i]
          ELSE /\ ret.messages[i].parts
                    = << [text |-> OtherMessages[i].content] >>
               /\ ret.messages[i].role
                    = IF OtherMessages[i].role = "assistant" THEN "model"
                      ELSE OtherMessages[i].role

\* the claim as stated: the channel carries the content of the request's
\* system message whenever there is one
C25_SystemChannelAlwaysCarries ==
  ret.kind = "params"
    => /\ SentWithoutSystem
       /\ IF HasSystem(call.arg)
          THEN ret.system = SetTo(FirstSystem(call.arg).content)
          ELSE ret.system = Unset

\* C25: for Anthropic and Google the list sent to the vendor has no
\* system-role message and keeps the other messages in order; the system
\* channel is unset without a system message and carries the content of the
\* first system message when that content is not empty; for an empty content
\* Anthropic sets the channel to the empty text and Google leaves it unset
C25_SystemChannel ==
  ret.kind = "params"
    => /\ SentWithoutSystem
       /\ ~HasSystem(call.arg) => ret.system = Unset
       /\ (HasSystem(call.arg) /\ FirstSystem(call.arg).content # << >>)
            => ret.system = SetTo(FirstSystem(call.arg).content)
       /\ (HasSystem(call.arg) /\ FirstSystem(call.arg).content = << >>)
            => ret.system = IF call.adapter = "anthropic" THEN SetTo(<< >>)
                            ELSE Unset

\* a request with a system message between two other messages was translated
C25_Witness ==
  /\ ret.kind = "params"
  /\ call.adapter = "google"
  /\ Len(call.arg) = 3
  /\ call.arg[2].role = "system"
  /\ call.arg[2].content = << "s" >>
  /\ ret.system = SetTo(<< "s" >>)
  /\ Len(ret.messages) = 2

(* ---- Vertex: concurrent initializations ---- *)
\* some initializeClient() of the Vertex adapter has succeeded: each one
\* that does caches the default model's instance
VertexInitSucceeded ==
  VertexCacheKey(NoFrame, NoInvocation.req, config) \in DOMAIN modelCache

\* C27: under every interleaving of the constructor's initializeClient with
\* the one a generateCompletion call runs, once some initialization has
\* succeeded and none is running any more the adapter's client is non-null
C27_FailedInitKeepsClient ==
  (VertexInitSucceeded /\ vertexInit # "running" /\ pc # "init")
    => vertexClient

(* ---- clients built in the constructor ---- *)
\* C28: for the adapters that build their vendor client only in the
\* constructor, after any configuration changes a generateCompletion call
\* made while isAvailable() is true finds an initialized client: it does not
\* fail on a missing client
C28_AvailableHasClient ==
  inv.adapter \in ProviderNames \ {"vertex"}
    => settled # Rejected(NullClientTypeError)

(* ---- the retry budget of one Vertex invocation ---- *)
FallbackCalls == IF frame.triedFallback THEN 1 ELSE 0

\* C29: in one Vertex generateCompletion invocation the retry count and the
\* tried-fallback flag are carried into every nested call: the retry count
\* is the number of back-off delays taken so far (never more than 3), also
\* after a fallback, the fallback is taken at most once, and the invocation
\* makes at most 5 vendor calls (1 initial, 3 retries, 1 fallback)
C29_RetryBudgetCarried ==
  inv.adapter = "vertex"
    => /\ Len(delays) <= 3
       /\ frame.retryCount = Len(delays) - (IF pc = "timer" THEN 1 ELSE 0)
       /\ vendorCalls <= 1 + frame.retryCount + FallbackCalls
       /\ vendorCalls <= 5

C29_Witness ==
  /\ inv.adapter = "vertex"
  /\ frame.triedFallback
  /\ frame.retryCount = 3
  /\ Len(delays) = 3
  /\ vendorCalls = 5
  /\ Len(calledModels) = 5
  /\ calledModels[1] # calledModels[5]

(* ---- the text a streamed completion returns ---- *)
RECURSIVE Concat(_)
\* fragments.join('')
Concat(frags) ==
  IF frags = << >> THEN << >> ELSE Head(frags) \o Concat(Tail(frags))

\* C30: a streamed completion with a progress callback (Vertex, Google)
\* returns the in-order concatenation of the fragments the callback was
\* passed before the done notification during the invocation, also when the
\* invocation was retried after a failure part-way through the stream
C30_ContentIsWhatWasDelivered ==
  (StreamedCallResolved /\ ConsumesStream(inv.adapter, inv.req))
    => content = Concat(Delivered_Fragments)

====
